---- MODULE Spec2Model ----
(***************************************************************************)
(* HTML-to-Markdown converter: the batch pipeline of src/src/index.ts      *)
(* (processUrlsInBatches, processUrl, fetchHtmlContent,                    *)
(* convertHtmlToMarkdown, convertHtmlWithContent) and the sitemap resolver *)
(* (SitemapParser) as state machines.  One step is the code that runs      *)
(* between two awaits, with the promise continuations it triggers: the     *)
(* event loop runs it without interleaving.  The path mapper (parseUrl and  *)
(* getOutputPaths of index.ts) and the HTML rewriter and title extractor    *)
(* (HtmlProcessor) are functions on strings and documents; PathSpec and     *)
(* DomSpec apply them to the inputs of the model.  WriteSpec follows the    *)
(* system calls of fs.writeFile of two pages of one batch; OrderSpec and    *)
(* CycleSpec are the sitemap resolver with the order of the returns         *)
(* recorded, and on indexes that refer to themselves.                       *)
(***************************************************************************)
EXTENDS Integers, Sequences, FiniteSets, TLC

(* ---------------------------------------------------------------------- *)
(* Bounds of the model                                                     *)
(* ---------------------------------------------------------------------- *)
MaxUrls == 3
MaxConcurrent == 2
MaxRetry == 3
MaxBatchRetry == 1
MaxChildren == 3
MaxEntries == 3

Min(a, b) == IF a < b THEN a ELSE b

VARIABLES
    MAX_CONCURRENT,   \* cliConfig.maxConcurrent / config.maxConcurrent
    RETRY_ATTEMPTS,   \* cliConfig.retryAttempts
    usePageTitlesForFilenames, \* config.fileOptions.usePageTitlesForFilenames
    total,            \* urls.length
    pcMain,           \* position of processUrlsInBatches
    i,                \* its loop variable
    completed,        \* its progress counter
    job,              \* one record per list entry: the processUrl call for it
    trace,            \* whether the per-job history counters are kept
    rootDoc,          \* the document served at the sitemap URL given to the resolver
    call,             \* the parseFromUrl activations, by their place in the call tree
    useDomainSubfolders,  \* config.fileOptions.useDomainSubfolders
    preserveUrlFilenames, \* config.fileOptions.preserveUrlFilenames
    mapCalls,         \* the getOutputPaths invocations so far, with what they returned
    htmlContent,      \* the markup handed to HtmlProcessor
    selectors,        \* config.selectors
    pageUrl,          \* the pageUrl argument of HtmlProcessor.process, or null
    rewritten,        \* the HtmlProcessor.process calls so far, stage by stage
    title,            \* what HtmlProcessor.extractPageTitle returned, once called
    urlList,          \* the URLs of the list given to processUrlsInBatches
    filePath,         \* per list entry: filePath of processUrl (getOutputPaths is a function of the URL)
    files,            \* the files of the output directory: path -> content
    fd,               \* per job: how far its fs.promises.writeFile call has come
    fsLog             \* history: the open, write and close calls on the files, in order

pipeVars == <<MAX_CONCURRENT, RETRY_ATTEMPTS, usePageTitlesForFilenames,
              total, pcMain, i, completed, job, trace>>
sitemapVars == <<rootDoc, call>>
pathVars == <<useDomainSubfolders, preserveUrlFilenames, mapCalls>>
domVars == <<htmlContent, selectors, pageUrl, rewritten, title>>
fsVars == <<urlList, filePath, files, fd, fsLog>>
toolVars == <<pathVars, domVars, fsVars>>
vars == <<pipeVars, sitemapVars, toolVars>>

\* The path mapper has not been called (the file options are the defaults of
\* config.ts).
PathIdle ==
    /\ useDomainSubfolders = TRUE
    /\ preserveUrlFilenames = TRUE
    /\ mapCalls = <<>>

\* HtmlProcessor has not been called.
DomIdle ==
    /\ htmlContent = <<>>
    /\ selectors = [exclude |-> <<>>, unwrap |-> <<>>, removeAttributes |-> TRUE]
    /\ pageUrl = [isNull |-> TRUE, value |-> <<>>]
    /\ rewritten = <<>>
    /\ title = <<>>

\* No file was opened.
FsIdle ==
    /\ urlList = <<>>
    /\ filePath = <<>>
    /\ files = [p \in {} |-> <<>>]
    /\ fd = <<>>
    /\ fsLog = <<>>

ToolIdle == PathIdle /\ DomIdle /\ FsIdle

(* ---------------------------------------------------------------------- *)
(* Batch pipeline: one job                                                 *)
(* ---------------------------------------------------------------------- *)

\* A history counter counts only in a traced run, and only a traced run keeps
\* a value the code does not read again.
Tick(x) == IF trace THEN x + 1 ELSE x
Kept(old, new) == IF trace THEN new ELSE old

\* Response bodies axios can deliver with status 200: an empty page and a page.
Bodies == {"", "<html>"}

\* Where a job is suspended (the awaits of processUrl and its callees).
Awaits == {"axios", "fetchDelay", "convertDelay", "ensureDir", "writeFile"}

\* A job before processUrl is called for it.
NewJob ==
    [pc |-> "pending",
     caller |-> "none",      \* who awaits fetchHtmlContent: processUrl or convertHtmlToMarkdown
     fetchRetry |-> 0,       \* retryCount of fetchHtmlContent
     convertRetry |-> 0,     \* retryCount of convertHtmlToMarkdown
     htmlContent |-> "null", \* history: processUrl's htmlContent (read only in the step that sets it)
     markdown |-> "none",    \* processUrl's markdown
     converted |-> "null",   \* history: the body the markdown was converted from
     mapped |-> FALSE,       \* getOutputPaths has run
     calls |-> 0,            \* number of processUrl calls for this entry
     writes |-> 0,           \* completed writeFile calls
     errorLog |-> <<>>,      \* the "Error processing <url>" entries
     fetches |-> 0,          \* history: axios.get requests issued
     fetchFails |-> 0,       \* history: of them, failed
     fetchOks |-> 0,         \* history: of them, succeeded
     failAfterOk |-> FALSE,  \* history: a request failed after one had succeeded
     convertFails |-> 0]     \* history: conversions that threw or gave empty output

\* retryCount < RETRY_ATTEMPTS, the test of the catch blocks of
\* fetchHtmlContent and convertHtmlToMarkdown.
MayRetryOffByOne(retryCount) == retryCount + 1 < RETRY_ATTEMPTS
MayRetry(retryCount) == retryCount < RETRY_ATTEMPTS

\* fetchHtmlContent and convertHtmlToMarkdown have returned or thrown to
\* processUrl: their frames, with their retry counts, are gone.
Unwind(j) == [j EXCEPT !.caller = "none", !.fetchRetry = 0, !.convertRetry = 0]

\* The catch block of processUrl: log the error and swallow it, so that the
\* promise of processUrl fulfils.
ProcessUrlCatchRethrow(j, cause) ==
    [Unwind(j) EXCEPT !.pc = "rejected", !.errorLog = Append(@, cause)]
ProcessUrlCatch(j, cause) ==
    [Unwind(j) EXCEPT !.pc = "failed", !.errorLog = Append(@, cause)]

\* A variant of the fetchHtmlContent call that goes on with the retry count of
\* the call before it.
IssueFetchKeepingCount(j, who) ==
    [j EXCEPT !.pc = "axios", !.caller = who, !.fetches = Tick(@)]

\* fetchHtmlContent(url) called afresh: retryCount = 0 and the request goes out.
IssueFetch(j, who) ==
    [j EXCEPT !.pc = "axios", !.caller = who, !.fetchRetry = 0,
              !.fetches = Tick(@)]

\* The catch block of convertHtmlToMarkdown: sleep and call itself again, or
\* log and rethrow to processUrl.
ConvertCatch(j, cause) ==
    IF MayRetry(j.convertRetry)
    THEN [j EXCEPT !.pc = "convertDelay"]
    ELSE ProcessUrlCatch(j, cause)

\* The catch block of fetchHtmlContent: sleep and call itself again, or log
\* and rethrow to the caller.
FetchCatch(j) ==
    IF MayRetry(j.fetchRetry)
    THEN [j EXCEPT !.pc = "fetchDelay"]
    ELSE IF j.caller = "convertHtmlToMarkdown"
         THEN ConvertCatch(j, "fetch")
         ELSE ProcessUrlCatch(j, "fetch")

\* turndown gives '' for '' input and the code throws on an empty result; for
\* other input the conversion may succeed or fail.
ConvertSucceeds(body, turndownOk) == body # "" /\ turndownOk

\* A variant of the start of processUrl that leaves getOutputPaths for later.
ProcessUrlStartUnmapped(j) ==
    IssueFetch([j EXCEPT !.calls = @ + 1],
               IF usePageTitlesForFilenames THEN "processUrl" ELSE "convertHtmlToMarkdown")

\* processUrl from its start to its first await.
ProcessUrlStart(j) ==
    IF usePageTitlesForFilenames
    THEN IssueFetch([j EXCEPT !.calls = @ + 1], "processUrl")
    ELSE IssueFetch([j EXCEPT !.calls = @ + 1, !.mapped = TRUE],
                    "convertHtmlToMarkdown")

\* What runs when the response arrives with status 200, up to the next await.
AfterFetch(j, body, turndownOk) ==
    IF j.caller = "processUrl"
    THEN \* extractPageTitle, getOutputPaths, then `if (htmlContent)`
         LET k == [j EXCEPT !.htmlContent = Kept(@, body), !.mapped = TRUE] IN
         IF body # ""
         THEN IF ConvertSucceeds(body, turndownOk)
              THEN [Unwind(k) EXCEPT !.pc = "ensureDir", !.markdown = "md",
                                    !.converted = Kept(@, body)]
              ELSE ProcessUrlCatch([k EXCEPT !.convertFails = Tick(@)], "convert")
         ELSE IssueFetch([k EXCEPT !.convertRetry = 0], "convertHtmlToMarkdown")
    ELSE IF ConvertSucceeds(body, turndownOk)
         THEN [Unwind(j) EXCEPT !.pc = "ensureDir", !.markdown = "md",
                               !.converted = Kept(@, body)]
         ELSE ConvertCatch([j EXCEPT !.convertFails = Tick(@)], "convert")

\* fsExtra.ensureDir settled.
AfterEnsureDir(j, ok) ==
    IF ok THEN [j EXCEPT !.pc = "writeFile"] ELSE ProcessUrlCatch(j, "fs")

\* fs.promises.writeFile settled: the file is there and the job is over, or
\* the call threw and nothing was written.
AfterWriteFilePartial(j, ok) ==
    IF ok THEN [j EXCEPT !.pc = "done", !.writes = @ + 1]
          ELSE ProcessUrlCatch([j EXCEPT !.writes = @ + 1], "fs")
AfterWriteFile(j, ok) ==
    IF ok THEN [j EXCEPT !.pc = "done", !.writes = @ + 1]
          ELSE ProcessUrlCatch(j, "fs")

(* ---------------------------------------------------------------------- *)
(* Batch pipeline: processUrlsInBatches                                    *)
(* ---------------------------------------------------------------------- *)

\* urls.slice(from, from + MAX_CONCURRENT), as the set of (1-based) positions.
BatchTooWide(from) == (from + 1)..Min(from + MAX_CONCURRENT + 1, total)
Batch(from) == (from + 1)..Min(from + MAX_CONCURRENT, total)

\* Promise.all(batch.map(...)) settles: every promise fulfilled, or one rejected.
AnySettled(jobs, from) ==
    \E n \in Batch(from) : jobs[n].pc \in {"done", "failed", "rejected"}
AllSettled(jobs, from) ==
    \/ \A n \in Batch(from) : jobs[n].pc \in {"done", "failed"}
    \/ \E n \in Batch(from) : jobs[n].pc = "rejected"

\* One turn of the for loop, from its test to the await of Promise.all.
LoopFrom(jobs, from) ==
    IF from < total
    THEN /\ pcMain' = "awaitAll"
         /\ job' = [n \in 1..total |->
                      IF n \in Batch(from) THEN ProcessUrlStart(jobs[n]) ELSE jobs[n]]
    ELSE /\ pcMain' = "returned"
         /\ job' = jobs

PipeConfig == <<MAX_CONCURRENT, RETRY_ATTEMPTS, usePageTitlesForFilenames, total, trace>>

\* main calls processUrlsInBatches(urls).
processUrlsInBatches ==
    /\ pcMain = "start"
    /\ i' = 0
    /\ completed' = 0
    /\ LoopFrom(job, 0)
    /\ UNCHANGED <<PipeConfig, sitemapVars, toolVars>>

\* Job n reaches its next await or settles; when that settles Promise.all, the
\* loop of processUrlsInBatches goes on in the same turn of the event loop.
Settle(n, j) ==
    LET jobs == [job EXCEPT ![n] = j] IN
    IF pcMain = "awaitAll" /\ AllSettled(jobs, i)
    THEN IF \E m \in Batch(i) : jobs[m].pc = "rejected"
         THEN /\ pcMain' = "threw"
              /\ job' = jobs
              /\ UNCHANGED <<i, completed>>
         ELSE /\ completed' = completed + Cardinality(Batch(i))
              /\ i' = i + MAX_CONCURRENT
              /\ LoopFrom(jobs, i + MAX_CONCURRENT)
    ELSE /\ job' = jobs
         /\ UNCHANGED <<pcMain, i, completed>>

JobStep(n, j) ==
    /\ Settle(n, j)
    /\ UNCHANGED <<PipeConfig, sitemapVars, toolVars>>

\* axios.get resolves with status 200 and a body.
AxiosResolve(n) ==
    /\ job[n].pc = "axios"
    /\ \E body \in Bodies, turndownOk \in BOOLEAN :
         JobStep(n, AfterFetch([job[n] EXCEPT !.fetchOks = Tick(@)], body, turndownOk))

\* axios.get rejects (network error, timeout) or the status is not 200.
AxiosReject(n) ==
    /\ job[n].pc = "axios"
    /\ JobStep(n, FetchCatch([job[n] EXCEPT !.fetchFails = Tick(@),
                                             !.failAfterOk = @ \/ job[n].fetchOks > 0]))

\* The RETRY_DELAY timer of fetchHtmlContent fires: fetchHtmlContent(url, retryCount + 1).
FetchRetry(n) ==
    /\ job[n].pc = "fetchDelay"
    /\ JobStep(n, [job[n] EXCEPT !.pc = "axios", !.fetchRetry = @ + 1,
                                 !.fetches = Tick(@)])

\* The RETRY_DELAY timer of convertHtmlToMarkdown fires:
\* convertHtmlToMarkdown(url, retryCount + 1), which calls fetchHtmlContent(url).
ConvertRetry(n) ==
    /\ job[n].pc = "convertDelay"
    /\ JobStep(n, IssueFetch([job[n] EXCEPT !.convertRetry = @ + 1],
                             "convertHtmlToMarkdown"))

\* fsExtra.ensureDir settles.
EnsureDir(n) ==
    /\ job[n].pc = "ensureDir"
    /\ \E ok \in BOOLEAN : JobStep(n, AfterEnsureDir(job[n], ok))

\* fs.promises.writeFile settles.
WriteFile(n) ==
    /\ job[n].pc = "writeFile"
    /\ \E ok \in BOOLEAN : JobStep(n, AfterWriteFile(job[n], ok))

\* processUrlsInBatches has not been called.
PipeIdle ==
    /\ pcMain = "start"
    /\ i = 0
    /\ completed = 0
    /\ job = [n \in 1..total |-> NewJob]

(* ---------------------------------------------------------------------- *)
(* SitemapParser                                                           *)
(* ---------------------------------------------------------------------- *)

\* Strings whose characters matter are sequences of characters.
Whitespace == {" ", "\n"}

\* String.prototype.trim.
RECURSIVE TrimStart(_)
TrimStart(s) ==
    IF s # <<>> /\ Head(s) \in Whitespace THEN TrimStart(Tail(s)) ELSE s
RECURSIVE TrimEnd(_)
TrimEnd(s) ==
    IF s # <<>> /\ s[Len(s)] \in Whitespace
    THEN TrimEnd(SubSeq(s, 1, Len(s) - 1)) ELSE s
Trim(s) == TrimEnd(TrimStart(s))

\* What xml2js (explicitArray: false) gives for the children of one name: the
\* property is missing for none, the child itself for one, an array for more.
Xml2js(children) ==
    IF Len(children) = 0 THEN [kind |-> "undefined"]
    ELSE IF Len(children) = 1 THEN [kind |-> "object", value |-> children[1]]
    ELSE [kind |-> "array",
          items |-> [k \in 1..Len(children) |-> [kind |-> "object", value |-> children[k]]]]

\* Array.isArray(x) ? x : [x]
AsArrayUnwrapped(x) ==
    IF x.kind = "array" THEN x.items ELSE <<>>
AsArray(x) ==
    IF x.kind = "array" THEN x.items ELSE <<x>>

\* A <url> or <sitemap> element as parsed: loc is '' when the element has no
\* <loc> text (missing and empty are both falsy).
Entry(loc) == [loc |-> loc]
Truthy(x) == x.kind = "object" /\ x.value.loc # <<>>

RECURSIVE FilterMapLoc(_)
FilterMapLoc(items) ==
    IF items = <<>> THEN <<>>
    ELSE IF Truthy(Head(items))
         THEN <<Trim(Head(items).value.loc)>> \o FilterMapLoc(Tail(items))
         ELSE FilterMapLoc(Tail(items))

\* handleUrlset(urlset), url being urlset.url.
handleUrlset(url) ==
    IF url.kind = "undefined" THEN <<>> ELSE FilterMapLoc(AsArray(url))

\* The sitemap URLs, one character each: the root, two urlsets, an index of
\* the two, a URL that serves no sitemap, an index that refers to the root,
\* and a text the URL constructor rejects.
RootUrl == <<"R">>
LeafAUrl == <<"A">>
LeafBUrl == <<"B">>
IndexUrl == <<"I">>
JunkUrl == <<"J">>
LoopUrl == <<"L">>
InvalidUrl == <<":">>

\* The documents behind the sitemap URLs other than the root's.
LeafA == <<Entry(<<" ", "a">>), Entry(<<"b">>)>>
LeafB == <<Entry(<<"a", "b">>), Entry(<<>>), Entry(<<"b", "a", "\n">>)>>
Doc(url) ==
    CASE url = RootUrl -> rootDoc
      [] url = LeafAUrl -> [kind |-> "urlset", xmlns |-> TRUE, children |-> LeafA]
      [] url = LeafBUrl -> [kind |-> "urlset", xmlns |-> TRUE, children |-> LeafB]
      [] url = IndexUrl -> [kind |-> "sitemapindex", xmlns |-> TRUE,
                            children |-> <<Entry(LeafAUrl), Entry(LeafBUrl)>>]
      [] url = LoopUrl -> [kind |-> "sitemapindex", xmlns |-> TRUE,
                           children |-> <<Entry(RootUrl)>>]
      [] OTHER -> [kind |-> "junk"]

\* The <loc> texts a root index can hold; <<>> is an entry without one.
SitemapLocs == {LeafAUrl, LeafBUrl, IndexUrl, JunkUrl, <<>>, InvalidUrl}

\* new URL(loc, baseUrl).toString(): the locs here are absolute, so the base
\* plays no part; an invalid one throws TypeError.
NewURL(loc, baseUrl) ==
    IF loc = InvalidUrl THEN [ok |-> FALSE, href |-> <<>>] ELSE [ok |-> TRUE, href |-> loc]

\* A parseFromUrl activation from its call to the await of axios.get.  order
\* is history: the rank of its return among the returns of the resolution.
NewCall(url) ==
    [url |-> url, pc |-> "axios", fetched |-> FALSE, sitemaps |-> <<>>, i |-> 0,
     allUrls |-> <<>>, ret |-> <<>>, order |-> 0]

Front(p) == SubSeq(p, 1, Len(p) - 1)

\* sitemaps.slice(from, from + maxConcurrent), as positions.
SitemapBatch(c, p, from) ==
    (from + 1)..Min(from + MAX_CONCURRENT, Len(c[p].sitemaps))

\* A callback that leaves out a reference to the sitemap it was read from.
MapCallbackSkippingSelf(sitemap, baseUrl) ==
    IF sitemap.kind = "undefined" THEN "throw"
    ELSE IF ~Truthy(sitemap) \/ sitemap.value.loc = baseUrl THEN "empty"
    ELSE IF NewURL(sitemap.value.loc, baseUrl).ok THEN "call" ELSE "throw"

\* The outcome of the async callback of batch.map up to its first await:
\* "call" (parseFromUrl called), "empty" (no loc: []), "throw" (rejected).
MapCallback(sitemap, baseUrl) ==
    IF sitemap.kind = "undefined" THEN "throw"
    ELSE IF ~Truthy(sitemap) THEN "empty"
    ELSE IF NewURL(sitemap.value.loc, baseUrl).ok THEN "call" ELSE "throw"

\* results.forEach(urls => allUrls.push(...urls)), over positions lo..hi.
RECURSIVE GatherReversed(_, _, _, _)
GatherReversed(c, p, lo, hi) ==
    IF lo > hi THEN <<>>
    ELSE GatherReversed(c, p, lo + 1, hi)
         \o (IF Append(p, lo) \in DOMAIN c THEN c[Append(p, lo)].ret ELSE <<>>)
\* The results of positions lo..hi in the order in which the calls returned.
GatherAsCompleted(c, p, lo, hi) ==
    LET RECURSIVE InOrder(_)
        InOrder(S) ==
            IF S = {} THEN <<>>
            ELSE LET k == CHOOSE k \in S :
                              \A m \in S : c[Append(p, k)].order <= c[Append(p, m)].order
                 IN  c[Append(p, k)].ret \o InOrder(S \ {k})
    IN  InOrder({k \in lo..hi : Append(p, k) \in DOMAIN c})
RECURSIVE Gather(_, _, _, _)
Gather(c, p, lo, hi) ==
    IF lo > hi THEN <<>>
    ELSE (IF Append(p, lo) \in DOMAIN c THEN c[Append(p, lo)].ret ELSE <<>>)
         \o Gather(c, p, lo + 1, hi)

RECURSIVE IndexLoop(_, _)
RECURSIVE Return(_, _, _)

\* The for loop of handleSitemapIndex in activation p, from its test: return
\* allUrls, or start the next batch and await it.  A batch with a rejected
\* promise makes Promise.all reject: parseSitemapContent catches that and
\* returns [], while the calls already made go on.  A batch of promises that
\* are all fulfilled at once lets the loop go on in the same turn.
IndexLoop(c, p) ==
    LET me == c[p]
        batch == SitemapBatch(c, p, me.i)
        outcome == [k \in batch |-> MapCallback(me.sitemaps[k], me.url)]
        called == {k \in batch : outcome[k] = "call"}
        c1 == [q \in DOMAIN c \cup {Append(p, k) : k \in called} |->
                 IF q \in DOMAIN c THEN c[q]
                 ELSE NewCall(NewURL(me.sitemaps[q[Len(q)]].value.loc, me.url).href)]
    IN  IF me.i >= Len(me.sitemaps) THEN Return(c, p, me.allUrls)
        ELSE IF \E k \in batch : outcome[k] = "throw" THEN Return(c1, p, <<>>)
        ELSE IF called = {} THEN IndexLoop([c EXCEPT ![p].i = @ + MAX_CONCURRENT], p)
        ELSE [c1 EXCEPT ![p].pc = "awaitAll"]

\* Activation p returns urls.  When that fulfils the last promise its caller
\* awaits, the caller gathers the results and its loop goes on.
Return(c, p, urls) ==
    LET returned == {r \in DOMAIN c : c[r].pc = "returned"}
        c1 == [c EXCEPT ![p].pc = "returned", ![p].ret = urls,
                        ![p].order = Kept(@, Cardinality(returned) + 1)]
        q == Front(p)
        batch == SitemapBatch(c1, q, c1[q].i)
    IN  IF p = <<>> THEN c1
        ELSE IF c1[q].pc # "awaitAll" THEN c1
        ELSE IF \A k \in batch : Append(q, k) \in DOMAIN c1 => c1[Append(q, k)].pc = "returned"
        THEN IndexLoop([c1 EXCEPT ![q].pc = "running",
                                  ![q].allUrls = @ \o Gather(c1, q, c1[q].i + 1, c1[q].i + Cardinality(batch)),
                                  ![q].i = @ + MAX_CONCURRENT], q)
        ELSE c1

\* parseSitemapContent(content, baseUrl) in activation p.
parseSitemapContent(c, p, doc) ==
    IF doc.kind = "sitemapindex" /\ (doc.xmlns \/ doc.children # <<>>)
    THEN IndexLoop([c EXCEPT ![p].sitemaps = AsArray(Xml2js(doc.children)),
                             ![p].pc = "running"], p)
    ELSE IF doc.kind = "urlset" /\ (doc.xmlns \/ doc.children # <<>>)
    THEN Return(c, p, handleUrlset(Xml2js(doc.children)))
    ELSE Return(c, p, <<>>)

\* getSitemapUrls calls SitemapParser.parseFromUrl(sitemapUrl).
parseFromUrl ==
    /\ call = [p \in {} |-> 0]
    /\ rootDoc.kind # "none"
    /\ call' = [p \in {<<>>} |-> NewCall(RootUrl)]
    /\ UNCHANGED <<rootDoc, pipeVars, toolVars>>

\* The sitemap request of activation p resolves with status 200.
SitemapResolve(p) ==
    /\ call[p].pc = "axios"
    /\ call' = parseSitemapContent([call EXCEPT ![p].fetched = TRUE], p, Doc(call[p].url))
    /\ UNCHANGED <<rootDoc, pipeVars, toolVars>>

\* The sitemap request of activation p fails or has another status: [].
SitemapReject(p) ==
    /\ call[p].pc = "axios"
    /\ call' = Return(call, p, <<>>)
    /\ UNCHANGED <<rootDoc, pipeVars, toolVars>>

SitemapNext ==
    \/ parseFromUrl
    \/ \E p \in DOMAIN call : SitemapResolve(p)
    \/ \E p \in DOMAIN call : SitemapReject(p)

SeqsUpTo(S, n) == UNION {[1..m -> S] : m \in 0..n}

\* The <loc> texts a urlset of the root can hold; <<>> is an entry without one.
PageLocs == {<<>>, <<"a">>, <<" ", "a">>, <<"b", "\n">>, <<" ", "a", "b", " ">>, <<"a", " ", "b">>, <<" ">>}

RootDocs ==
    {[kind |-> "sitemapindex", xmlns |-> TRUE, children |-> ch] :
        ch \in SeqsUpTo({Entry(loc) : loc \in SitemapLocs}, MaxChildren)}
    \cup {[kind |-> "urlset", xmlns |-> TRUE, children |-> ch] :
        ch \in SeqsUpTo({Entry(loc) : loc \in PageLocs}, MaxEntries)}
    \cup {[kind |-> k, xmlns |-> FALSE, children |-> <<>>] : k \in {"sitemapindex", "urlset"}}
    \cup {[kind |-> "junk"]}

\* The resolver is given a sitemap URL; the pipeline has not started.
SitemapInit ==
    /\ MAX_CONCURRENT \in 1..MaxConcurrent
    /\ RETRY_ATTEMPTS = 0
    /\ usePageTitlesForFilenames = FALSE
    /\ total = 0
    /\ trace = FALSE
    /\ PipeIdle
    /\ rootDoc \in RootDocs
    /\ call = [p \in {} |-> 0]
    /\ ToolIdle

SitemapSpec == SitemapInit /\ [][SitemapNext]_vars

\* The resolver with the order of the returns recorded, for root indexes
\* whose references are all well formed.
OrderChildren ==
    SeqsUpTo({LeafAUrl, LeafBUrl, IndexUrl}, 2)
    \cup {<<LeafAUrl, LeafBUrl, LeafAUrl>>, <<LeafBUrl, JunkUrl, LeafAUrl>>,
          <<LeafAUrl, <<>>, IndexUrl>>}

OrderInit ==
    /\ MAX_CONCURRENT \in 1..MaxConcurrent
    /\ RETRY_ATTEMPTS = 0
    /\ usePageTitlesForFilenames = FALSE
    /\ total = 0
    /\ trace = TRUE
    /\ PipeIdle
    /\ rootDoc \in {[kind |-> "sitemapindex", xmlns |-> TRUE,
                       children |-> [k \in 1..Len(ch) |-> Entry(ch[k])]] : ch \in OrderChildren}
    /\ call = [p \in {} |-> 0]
    /\ ToolIdle

OrderSpec == OrderInit /\ [][SitemapNext]_vars

\* The deepest recursion of parseFromUrl the model follows: a request at this
\* depth can only fail.
MaxDepth == 3

\* The sitemap request of activation p resolves, within the depth followed.
SitemapResolveWithin(p) ==
    /\ Len(p) < MaxDepth
    /\ SitemapResolve(p)

\* Root indexes over urlsets and indexes, some of which refer to the root
\* itself, directly or through another index.
CycleChildren ==
    {<<>>, <<LeafAUrl>>, <<IndexUrl>>, <<LeafAUrl, IndexUrl>>, <<IndexUrl, LeafBUrl>>,
     <<RootUrl>>, <<LoopUrl>>, <<LeafAUrl, RootUrl>>, <<RootUrl, LeafAUrl>>,
     <<LoopUrl, LeafBUrl>>}
CycleDocs ==
    {[kind |-> "sitemapindex", xmlns |-> TRUE,
      children |-> [k \in 1..Len(ch) |-> Entry(ch[k])]] : ch \in CycleChildren}

CycleInit ==
    /\ MAX_CONCURRENT \in 1..MaxConcurrent
    /\ RETRY_ATTEMPTS = 0
    /\ usePageTitlesForFilenames = FALSE
    /\ total = 0
    /\ trace = FALSE
    /\ PipeIdle
    /\ rootDoc \in CycleDocs
    /\ call = [p \in {} |-> 0]
    /\ ToolIdle

CycleNext ==
    \/ parseFromUrl
    \/ \E p \in DOMAIN call : SitemapReject(p)
    \/ \E p \in DOMAIN call : SitemapResolveWithin(p)

\* ENABLED <<CycleNext>>_vars as a state predicate: the resolver has not been
\* called yet, or a request is under way (it can always fail).
Outstanding ==
    \/ call = [p \in {} |-> 0]
    \/ \E p \in DOMAIN call : call[p].pc = "axios"

\* WF_vars(CycleNext) with Outstanding for the enabling condition: the event
\* loop delivers the outcome of every request.
CycleFairness == []<>(~Outstanding) \/ []<><<CycleNext>>_vars

CycleSpec == CycleInit /\ [][CycleNext]_vars /\ CycleFairness

\* No sitemap is being resolved.
SitemapIdle ==
    /\ rootDoc = [kind |-> "none"]
    /\ call = [p \in {} |-> 0]

\* A run over a URL list, without the history counters.
PipeInit ==
    /\ MAX_CONCURRENT \in 1..MaxConcurrent
    /\ RETRY_ATTEMPTS \in 0..MaxBatchRetry
    /\ usePageTitlesForFilenames \in BOOLEAN
    /\ total \in 0..MaxUrls
    /\ trace = FALSE
    /\ PipeIdle
    /\ SitemapIdle
    /\ ToolIdle

\* A run over a list of one URL, with the history counters.
JobInit ==
    /\ MAX_CONCURRENT \in 1..MaxConcurrent
    /\ RETRY_ATTEMPTS \in 0..MaxRetry
    /\ usePageTitlesForFilenames \in BOOLEAN
    /\ total = 1
    /\ trace = TRUE
    /\ PipeIdle
    /\ SitemapIdle
    /\ ToolIdle

PipeNext ==
    \/ processUrlsInBatches
    \/ \E n \in 1..total : AxiosResolve(n)
    \/ \E n \in 1..total : AxiosReject(n)
    \/ \E n \in 1..total : FetchRetry(n)
    \/ \E n \in 1..total : ConvertRetry(n)
    \/ \E n \in 1..total : EnsureDir(n)
    \/ \E n \in 1..total : WriteFile(n)

Init == PipeInit
Next == PipeNext
Spec == Init /\ [][Next]_vars
\* Every request, timer and file operation the run waits for settles in the end.
FairSpec == Init /\ [][Next]_vars /\ WF_vars(Next)
JobSpec == JobInit /\ [][Next]_vars
\* The traced run of one job, every request, timer and file operation settling.
FairJobSpec == JobInit /\ [][Next]_vars /\ WF_vars(Next)
(* ---------------------------------------------------------------------- *)
(* Batch pipeline: properties                                              *)
(* ---------------------------------------------------------------------- *)

Jobs == 1..total
Over(j) == j.pc \in {"done", "failed"}
InFlight == {n \in Jobs : job[n].pc \in Awaits}
Requests == {n \in Jobs : job[n].pc = "axios"}
Window(n) == (n - 1) \div MAX_CONCURRENT

\* C1: with retry ceiling R, a job whose requests fail k <= R times and then
\* succeed, whose conversion does not fail and whose file operations succeed,
\* ends done with exactly one write and no "Error processing" entry: it does
\* not give up while at most R requests have failed, and once a request has
\* succeeded it settles as done.
C1_RetryThenSuccess ==
    \A n \in Jobs :
      /\ (job[n].fetchOks = 0 /\ job[n].fetchFails <= RETRY_ATTEMPTS)
         => job[n].pc \in {"pending", "axios", "fetchDelay"}
      /\
        ( /\ job[n].fetchOks >= 1
          /\ job[n].fetchFails <= RETRY_ATTEMPTS
          /\ ~job[n].failAfterOk
          /\ job[n].convertFails = 0
          /\ job[n].pc \notin Awaits )
        => \/ /\ job[n].pc = "done"
              /\ job[n].writes = 1
              /\ job[n].errorLog = <<>>
           \/ job[n].errorLog = <<"fs">>

\* R = 3, two failed requests, the third succeeds: one write, nothing logged.
C1_Witness ==
    \E n \in Jobs :
        /\ RETRY_ATTEMPTS = 3
        /\ job[n].fetchFails = 2
        /\ job[n].fetchOks = 1
        /\ job[n].fetches = 3
        /\ job[n].pc = "done"
        /\ job[n].writes = 1

\* C2, as claimed: once the first R+1 requests of a job have failed, the job
\* is failed, has issued no further request, has written nothing and has one
\* "Error processing" entry, whatever the filename policy.
C2_FailedAfterCeiling ==
    \A n \in Jobs :
        (job[n].fetchOks = 0 /\ job[n].fetchFails >= RETRY_ATTEMPTS + 1)
        => /\ job[n].pc = "failed"
           /\ job[n].fetches = RETRY_ATTEMPTS + 1
           /\ job[n].writes = 0
           /\ Len(job[n].errorLog) = 1

\* C3: the run returns; by then processUrl was called exactly once for every
\* list entry and every job is done or failed; no promise of processUrl ever
\* rejects and processUrlsInBatches never throws.
C3_RunCompletes ==
    /\ [](pcMain # "threw" /\ \A n \in Jobs : job[n].pc # "rejected")
    /\ [](pcMain = "returned" =>
            /\ completed = total
            /\ \A n \in Jobs : job[n].calls = 1 /\ Over(job[n]))
    /\ <>(pcMain = "returned")

\* A failed job in the first window, a job of a later window done after it.
C3_Witness ==
    /\ pcMain = "returned"
    /\ total = 3
    /\ job[1].pc = "failed"
    /\ job[3].pc = "done"

\* C4: at most MAX_CONCURRENT jobs are in flight, and at most MAX_CONCURRENT
\* page requests are outstanding.
C4_ConcurrencyCeiling ==
    /\ Cardinality(InFlight) <= MAX_CONCURRENT
    /\ Cardinality(Requests) <= MAX_CONCURRENT

\* The ceiling is reached: a full window of two jobs, both requests out.
C4_Witness ==
    /\ MAX_CONCURRENT = 2
    /\ Cardinality(InFlight) = 2
    /\ Cardinality(Requests) = 2
    /\ total = 3

\* C5: the entries started so far are the first windows of the list, each of
\* at most MAX_CONCURRENT consecutive entries, and an entry of a later window
\* is started only when every entry of the earlier windows is done or failed.
C5_WindowsInOrder ==
    /\ \E w \in 0..total :
         {n \in Jobs : job[n].pc # "pending"} = 1..Min(w * MAX_CONCURRENT, total)
    /\ \A m, n \in Jobs :
         (Window(m) < Window(n) /\ job[n].pc # "pending") => Over(job[m])

\* The second window runs after a first window of two jobs, one of them failed.
C5_Witness ==
    /\ MAX_CONCURRENT = 2
    /\ total = 3
    /\ job[1].pc = "failed"
    /\ job[2].pc = "done"
    /\ job[3].pc \in Awaits

\* C7: a job that wrote is done: the write follows a successful request,
\* conversion and path mapping, and nothing follows it; a failed job wrote
\* nothing.
C7_NoWriteWhenFailed ==
    \A n \in Jobs :
        /\ job[n].pc = "failed" => job[n].writes = 0
        /\ job[n].writes > 0 =>
             /\ job[n].pc = "done"
             /\ job[n].writes = 1
             /\ job[n].errorLog = <<>>
        /\ job[n].pc \in {"ensureDir", "writeFile", "done"} =>
             /\ job[n].fetchOks >= 1
             /\ job[n].markdown = "md"
             /\ job[n].mapped

\* A job fails at the write itself, after conversion succeeded: no write.
C7_Witness ==
    \E n \in Jobs :
        /\ job[n].pc = "failed"
        /\ job[n].errorLog = <<"fs">>
        /\ job[n].markdown = "md"
        /\ job[n].writes = 0

\* C21, as claimed: with usePageTitlesForFilenames on, a job that is done had
\* exactly one successful request, and the markdown was converted from the
\* body the title was extracted from, whatever that body was.
C21_OneFetchInTitleMode ==
    \A n \in Jobs :
        (usePageTitlesForFilenames /\ job[n].pc = "done")
        => /\ job[n].fetchOks = 1
           /\ job[n].converted = job[n].htmlContent

\* A step in which a conversion of job n fails (turndown throws or gives
\* empty output).
ConversionFails(n) == job'[n].convertFails = job[n].convertFails + 1

\* C22, as claimed: under either filename policy, when a conversion fails
\* while the job's retry count is below RETRY_ATTEMPTS the job sleeps and
\* then requests the page again with the retry count one higher; it is
\* failed only when the retry count has reached RETRY_ATTEMPTS.
C22_ConversionFailureRetried ==
    [][\A n \in Jobs :
          /\ ConversionFails(n) =>
                IF job[n].convertRetry < RETRY_ATTEMPTS
                THEN /\ job'[n].pc = "convertDelay"
                     /\ job'[n].convertRetry = job[n].convertRetry
                ELSE job'[n].pc = "failed"
          /\ (job[n].pc = "convertDelay" /\ job'[n] # job[n]) =>
                /\ job'[n].pc = "axios"
                /\ job'[n].convertRetry = job[n].convertRetry + 1]_vars

\* C24, as claimed: getOutputPaths has run for a job only when a request of
\* the job has succeeded and its markdown is there, under either filename
\* policy; after a retry delay the job requests the page again.
C24_PathMappingAfterConversion ==
    /\ [](\A n \in Jobs :
            job[n].mapped => (job[n].fetchOks >= 1 /\ job[n].markdown = "md"))
    /\ [][\A n \in Jobs :
            (job[n].pc \in {"fetchDelay", "convertDelay"} /\ job'[n] # job[n])
            => job'[n].pc = "axios"]_vars

\* C24, as the code has it: getOutputPaths runs before the conversion: with
\* usePageTitlesForFilenames off when processUrl starts, before the first
\* request, and with it on right after the first successful request.  The
\* markdown is there only after a successful request and after the path
\* mapping; ensureDir and writeFile come after the markdown; after a retry
\* delay the job requests the page again.
C24_PathMappingBeforeConversion ==
    /\ [](\A n \in Jobs :
            /\ ~usePageTitlesForFilenames => (job[n].mapped <=> job[n].pc # "pending")
            /\ usePageTitlesForFilenames => (job[n].mapped <=> job[n].fetchOks >= 1)
            /\ job[n].markdown = "md" => (job[n].fetchOks >= 1 /\ job[n].mapped)
            /\ job[n].pc \in {"ensureDir", "writeFile", "done"} => job[n].markdown = "md"
            /\ job[n].writes > 0 => job[n].markdown = "md")
    /\ [][\A n \in Jobs :
            /\ (job[n].pc \in {"fetchDelay", "convertDelay"} /\ job'[n] # job[n])
               => job'[n].pc = "axios"
            /\ (job[n].mapped /\ job[n].pc # "failed") => job'[n].mapped
            /\ (job[n].markdown = "none" /\ job'[n].markdown = "md")
               => (job[n].pc = "axios" /\ job'[n].pc = "ensureDir")]_vars

\* With the title policy off a job is done after one failed request and one
\* failed conversion: it went back to the request both times, and its path
\* was mapped before any of it.
C24_Witness ==
    \E n \in Jobs :
        /\ ~usePageTitlesForFilenames
        /\ job[n].pc = "done"
        /\ job[n].fetchFails = 1
        /\ job[n].convertFails = 1
        /\ job[n].fetches = 3
        /\ job[n].mapped
        /\ job[n].writes = 1

\* C29: with usePageTitlesForFilenames off and R = RETRY_ATTEMPTS, the retry
\* count of convertHtmlToMarkdown never exceeds R (at most R + 1 conversion
\* attempts), each conversion attempt calls fetchHtmlContent with retry count
\* 0, which never exceeds R, so that a job issues at most (R + 1) * (R + 1)
\* requests; and every job is done or failed in the end.
C29_BoundedRetries ==
    /\ [](\A n \in Jobs :
            ~usePageTitlesForFilenames =>
                /\ job[n].convertRetry <= RETRY_ATTEMPTS
                /\ job[n].fetchRetry <= RETRY_ATTEMPTS
                /\ job[n].fetches <= (RETRY_ATTEMPTS + 1) * (RETRY_ATTEMPTS + 1)
                /\ job[n].pc \in {"axios", "fetchDelay", "convertDelay"}
                   => job[n].fetches <= (job[n].convertRetry + 1) * (RETRY_ATTEMPTS + 1))
    /\ [][\A n \in Jobs :
            (~usePageTitlesForFilenames /\ job[n].pc = "convertDelay" /\ job'[n] # job[n])
            => /\ job'[n].pc = "axios"
               /\ job'[n].convertRetry = job[n].convertRetry + 1
               /\ job'[n].fetchRetry = 0]_vars
    /\ <>[](\A n \in Jobs : Over(job[n]))

\* R = 2 and every request fails: the job is failed after 9 requests.
C29_Witness ==
    \E n \in Jobs :
        /\ ~usePageTitlesForFilenames
        /\ RETRY_ATTEMPTS = 2
        /\ job[n].fetches = 9
        /\ job[n].fetchFails = 9
        /\ job[n].pc = "failed"

(* ---------------------------------------------------------------------- *)
(* Sitemap resolver: properties                                            *)
(* ---------------------------------------------------------------------- *)

Resolving == DOMAIN call # {}
RootCall == call[<<>>]
AllReturned == \A p \in DOMAIN call : call[p].pc = "returned"
\* The recursive calls whose own sitemap request is outstanding: some of the
\* recursive calls in flight.
RecursiveRequests == {p \in DOMAIN call : p # <<>> /\ call[p].pc = "axios"}

RECURSIVE Flatten(_)
Flatten(lists) ==
    IF lists = <<>> THEN <<>> ELSE Head(lists) \o Flatten(Tail(lists))

\* What the k-th reference of the root index contributed: the value its
\* parseFromUrl call returned, nothing when no call was made for it.
Contribution(k) == IF <<k>> \in DOMAIN call THEN call[<<k>>].ret ELSE <<>>

\* C6, as claimed: at most MAX_CONCURRENT recursive parseFromUrl calls are in
\* flight, counting only those whose request is outstanding.
C6_SitemapCeiling == Cardinality(RecursiveRequests) <= MAX_CONCURRENT

\* C8, as claimed: when the resolution of an index is over, its result is made
\* of what every reference contributed, a failed one contributing nothing.
C8_FailSoftPerChild ==
    (Resolving /\ AllReturned /\ rootDoc.kind = "sitemapindex")
    => RootCall.ret = Flatten([k \in 1..Len(RootCall.sitemaps) |-> Contribution(k)])

\* The URL lists of the two urlsets, as resolved on their own.
LeafUrls(loc) ==
    IF loc = LeafAUrl THEN << <<"a">>, <<"b">> >> ELSE << <<"a", "b">>, <<"b", "a">> >>

\* C9: for an index whose references all name urlsets, the result is the
\* concatenation, in reference order, of what resolving each reference gave
\* (its URL list, or nothing when its request failed); with no failed request
\* its length is the sum of the lengths of the urlsets.
C9_IndexConcatenation ==
    ( /\ Resolving
      /\ RootCall.pc = "returned"
      /\ RootCall.fetched
      /\ rootDoc.kind = "sitemapindex"
      /\ rootDoc.children # <<>>
      /\ \A k \in 1..Len(rootDoc.children) :
            rootDoc.children[k].loc \in {LeafAUrl, LeafBUrl} )
    => LET N == Len(rootDoc.children)
           expected == [k \in 1..N |->
                          IF call[<<k>>].fetched
                          THEN LeafUrls(rootDoc.children[k].loc) ELSE <<>>]
       IN  /\ \A k \in 1..N : <<k>> \in DOMAIN call /\ call[<<k>>].ret = expected[k]
           /\ RootCall.ret = Flatten(expected)
           /\ (\A k \in 1..N : call[<<k>>].fetched)
              => Len(RootCall.ret) = 2 * N

\* An index of two urlsets of two URLs each resolves to the four URLs.
C9_Witness ==
    /\ Resolving
    /\ RootCall.pc = "returned"
    /\ rootDoc.kind = "sitemapindex"
    /\ rootDoc.children = <<Entry(LeafAUrl), Entry(LeafBUrl)>>
    /\ RootCall.ret = << <<"a">>, <<"b">>, <<"a", "b">>, <<"b", "a">> >>

\* r is l without its leading and trailing whitespace.
IsTrimOf(r, l) ==
    \E a \in 0..Len(l) : \E b \in a..Len(l) :
        /\ r = SubSeq(l, a + 1, b)
        /\ \A k \in 1..a : l[k] \in Whitespace
        /\ \A k \in (b + 1)..Len(l) : l[k] \in Whitespace
        /\ r # <<>> => (r[1] \notin Whitespace /\ r[Len(r)] \notin Whitespace)

HasLoc(e) == e.loc # <<>>

\* C10: a fetched urlset resolves to the trimmed <loc> texts of its entries
\* that have one, one per entry and in document order, for no, one or several
\* entries.
C10_UrlsetLocations ==
    ( /\ Resolving
      /\ RootCall.pc = "returned"
      /\ RootCall.fetched
      /\ rootDoc.kind = "urlset" )
    => LET withLoc == SelectSeq(rootDoc.children, HasLoc)
       IN  /\ Len(RootCall.ret) = Len(withLoc)
           /\ \A k \in 1..Len(withLoc) : IsTrimOf(RootCall.ret[k], withLoc[k].loc)

\* Three entries, the second without <loc>, the others padded with whitespace.
C10_Witness ==
    /\ Resolving
    /\ RootCall.pc = "returned"
    /\ rootDoc.kind = "urlset"
    /\ rootDoc.children = <<Entry(<<" ", "a">>), Entry(<<>>), Entry(<<"b", "\n">>)>>
    /\ RootCall.ret = << <<"a">>, <<"b">> >>

\* The position before the first URL of the k-th reference in the result of
\* index call p.
RECURSIVE Offset(_, _)
Offset(p, k) ==
    IF k <= 1 THEN 0
    ELSE Offset(p, k - 1)
         + (IF Append(p, k - 1) \in DOMAIN call THEN Len(call[Append(p, k - 1)].ret) ELSE 0)

\* C28: in the result of every index call the URLs of its references stand in
\* reference order, those of reference k right after those of the references
\* before it, whatever the order in which the calls of a window returned;
\* and a urlset call returns its own list or, its request failed, nothing:
\* the resolved list depends on the documents and the failed requests only.
C28_ReferenceOrderInWindow ==
    \A p \in DOMAIN call :
        (call[p].pc = "returned" /\ call[p].fetched)
        => IF Doc(call[p].url).kind = "sitemapindex"
           THEN LET N == Len(Doc(call[p].url).children)
                IN  /\ Len(call[p].ret) = Offset(p, N + 1)
                    /\ \A k \in 1..N :
                          Append(p, k) \in DOMAIN call =>
                              /\ call[Append(p, k)].pc = "returned"
                              /\ SubSeq(call[p].ret, Offset(p, k) + 1, Offset(p, k + 1))
                                   = call[Append(p, k)].ret
           ELSE IF call[p].url \in {LeafAUrl, LeafBUrl}
           THEN call[p].ret = LeafUrls(call[p].url)
           ELSE call[p].ret = <<>>

\* Both urlsets of one window were fetched and the second returned first; the
\* result lists the URLs of the first before those of the second.
C28_Witness ==
    /\ Resolving
    /\ MAX_CONCURRENT = 2
    /\ rootDoc.children = <<Entry(LeafAUrl), Entry(LeafBUrl)>>
    /\ RootCall.pc = "returned"
    /\ {<<1>>, <<2>>} \subseteq DOMAIN call
    /\ call[<<1>>].fetched /\ call[<<2>>].fetched
    /\ call[<<2>>].order < call[<<1>>].order
    /\ RootCall.ret = << <<"a">>, <<"b">>, <<"a", "b">>, <<"b", "a">> >>

\* The sitemap documents from which the root is reached again.
RefersToRoot(doc) ==
    doc.kind = "sitemapindex"
    /\ \E k \in 1..Len(doc.children) : doc.children[k].loc \in {RootUrl, LoopUrl}

\* C25: the resolution of a root whose documents form a tree returns; an
\* index calls parseFromUrl for every reference of the batches it has
\* started, whether or not the URL is the one of a call under way; and the
\* resolution of a root that is reached again from itself returns only when
\* a request of the root or of the index that refers to it has failed.
C25_NoCycleDetection ==
    /\ ~RefersToRoot(rootDoc) => <>(Resolving /\ RootCall.pc = "returned")
    /\ [](\A p \in DOMAIN call :
            call[p].pc = "awaitAll" =>
                \A k \in 1..Min(call[p].i + MAX_CONCURRENT, Len(call[p].sitemaps)) :
                    /\ Append(p, k) \in DOMAIN call
                    /\ call[Append(p, k)].url = call[p].sitemaps[k].value.loc)
    /\ []((RefersToRoot(rootDoc) /\ Resolving /\ RootCall.pc = "returned")
          => \E p \in DOMAIN call :
                 call[p].url \in {RootUrl, LoopUrl} /\ ~call[p].fetched)

\* The root index refers to itself: the root URL is requested for the fourth
\* time, the three requests before it succeeded and no call has returned.
C25_Witness ==
    /\ rootDoc.children = <<Entry(RootUrl)>>
    /\ DOMAIN call = {<<>>, <<1>>, <<1, 1>>, <<1, 1, 1>>}
    /\ \A p \in DOMAIN call : call[p].url = RootUrl /\ call[p].pc # "returned"
    /\ \A p \in DOMAIN call : call[p].fetched <=> p # <<1, 1, 1>>

(* ---------------------------------------------------------------------- *)
(* Path mapper: parseUrl and getOutputPaths of src/src/index.ts            *)
(* A string is the sequence of its characters.                             *)
(* ---------------------------------------------------------------------- *)

\* String.prototype.startsWith, endsWith, slice(from), slice(0, -n).
startsWith(s, p) == Len(s) >= Len(p) /\ SubSeq(s, 1, Len(p)) = p
endsWith(s, p) == Len(s) >= Len(p) /\ SubSeq(s, Len(s) - Len(p) + 1, Len(s)) = p
sliceFrom(s, from) == SubSeq(s, from + 1, Len(s))
dropLast(s, n) == SubSeq(s, 1, Len(s) - n)

\* The index of the first character of s, from position k on, that is in cs;
\* Len(s) + 1 if none.
IndexOfAny(s, cs, k) ==
    IF k > Len(s) THEN k
    ELSE CHOOSE j \in k..(Len(s) + 1) :
            (j > Len(s) \/ s[j] \in cs) /\ \A before \in k..(j - 1) : s[before] \notin cs

\* String.prototype.split on a single-character separator or character class.
RECURSIVE split(_, _)
split(s, seps) ==
    LET k == IndexOfAny(s, seps, 1) IN
    IF k > Len(s) THEN <<s>>
    ELSE <<SubSeq(s, 1, k - 1)>> \o split(SubSeq(s, k + 1, Len(s)), seps)

\* Array.prototype.join.
RECURSIVE join(_, _)
join(parts, sep) ==
    IF parts = <<>> THEN <<>>
    ELSE IF Len(parts) = 1 THEN parts[1]
    ELSE parts[1] \o sep \o join(Tail(parts), sep)

\* filter(Boolean) on an array of strings.
filterBoolean(parts) == SelectSeq(parts, LAMBDA x : x # <<>>)

\* String.prototype.toLowerCase on the letters of the model's alphabet.
UpperCase == ("A" :> "a") @@ ("B" :> "b") @@ ("C" :> "c") @@ ("H" :> "h") @@
             ("L" :> "l") @@ ("M" :> "m") @@ ("N" :> "n") @@ ("O" :> "o") @@
             ("P" :> "p") @@ ("T" :> "t") @@ ("U" :> "u")
toLowerCase(s) ==
    [k \in 1..Len(s) |-> IF s[k] \in DOMAIN UpperCase THEN UpperCase[s[k]] ELSE s[k]]

\* new URL(url) for the absolute http(s) URLs of the model (lower-case host,
\* no port, no credentials, no dot segments, no character that is
\* percent-encoded): it throws when there is no scheme or no host.
urlObj(url) ==
    LET scheme == IF startsWith(url, <<"h", "t", "t", "p", "s", ":", "/", "/">>) THEN <<"h", "t", "t", "p", "s", ":", "/", "/">>
                   ELSE IF startsWith(url, <<"h", "t", "t", "p", ":", "/", "/">>) THEN <<"h", "t", "t", "p", ":", "/", "/">>
                   ELSE <<>>
        rest == sliceFrom(url, Len(scheme))
        h == IndexOfAny(rest, {"/", "?", "#"}, 1)
        afterHost == SubSeq(rest, h, Len(rest))
        q == IndexOfAny(afterHost, {"?", "#"}, 1)
        afterPath == SubSeq(afterHost, q, Len(afterHost))
        f == IndexOfAny(afterPath, {"#"}, 1)
        query == SubSeq(afterPath, 1, f - 1)
    IN  IF scheme = <<>> \/ h = 1
        THEN [ok |-> FALSE]
        ELSE [ok |-> TRUE,
              hostname |-> SubSeq(rest, 1, h - 1),
              pathname |-> IF q = 1 THEN <<"/">> ELSE SubSeq(afterHost, 1, q - 1),
              search |-> IF query = <<"?">> THEN <<>> ELSE query]

\* sanitize-filename's sanitize(input) with the default replacement '':
\* illegalRe, reservedRe, windowsReservedRe, windowsTrailingRe, then the cut
\* to 255 (the model's alphabet has no control character).
IllegalChars == {"/", "?", "<", ">", "\\", ":", "*", "|", "\""}
WindowsReserved ==
    {<<"c", "o", "n">>, <<"p", "r", "n">>, <<"a", "u", "x">>, <<"n", "u", "l">>}
    \cup {p \o <<d>> : p \in {<<"c", "o", "m">>, <<"l", "p", "t">>},
                       d \in {"0", "1", "2", "3", "4", "5", "6", "7", "8", "9"}}

RECURSIVE TrimTrailing(_)
TrimTrailing(s) ==
    IF s # <<>> /\ s[Len(s)] \in {".", " "} THEN TrimTrailing(dropLast(s, 1)) ELSE s

sanitize(input) ==
    LET legal == SelectSeq(input, LAMBDA c : c \notin IllegalChars)
        unreserved == IF legal # <<>> /\ \A k \in 1..Len(legal) : legal[k] = "."
                      THEN <<>> ELSE legal
        dot == IndexOfAny(unreserved, {"."}, 1)
        device == toLowerCase(SubSeq(unreserved, 1, dot - 1)) \in WindowsReserved
        named == IF device THEN <<>> ELSE unreserved
        trimmed == TrimTrailing(named)
    IN  IF input = <<>> THEN <<>>
        ELSE IF Len(trimmed) > 255 THEN SubSeq(trimmed, 1, 255) ELSE trimmed


\* String.prototype.charCodeAt for the characters of the model's URLs.
charCodeAt ==
    ("a" :> 97) @@ ("b" :> 98) @@ ("c" :> 99) @@ ("d" :> 100) @@ ("e" :> 101) @@
    ("f" :> 102) @@ ("g" :> 103) @@ ("h" :> 104) @@ ("i" :> 105) @@ ("j" :> 106) @@
    ("k" :> 107) @@ ("l" :> 108) @@ ("m" :> 109) @@ ("n" :> 110) @@ ("o" :> 111) @@
    ("p" :> 112) @@ ("q" :> 113) @@ ("r" :> 114) @@ ("s" :> 115) @@ ("t" :> 116) @@
    ("u" :> 117) @@ ("v" :> 118) @@ ("w" :> 119) @@ ("x" :> 120) @@ ("y" :> 121) @@
    ("z" :> 122) @@ ("A" :> 65) @@ ("B" :> 66) @@ ("0" :> 48) @@ ("1" :> 49) @@
    ("2" :> 50) @@ ("3" :> 51) @@ ("4" :> 52) @@ ("5" :> 53) @@ ("6" :> 54) @@
    ("7" :> 55) @@ ("8" :> 56) @@ ("9" :> 57) @@ ("=" :> 61) @@ ("&" :> 38) @@
    ("-" :> 45) @@ ("_" :> 95) @@ ("." :> 46) @@ ("%" :> 37) @@
    ("?" :> 63) @@ ("/" :> 47) @@ (":" :> 58) @@ (" " :> 32)

\* One round of hashCode's loop: hash = ((hash << 5) - hash) + char, then
\* hash & hash, the conversion to a 32-bit integer.  The integer is kept as its
\* two 16-bit halves (two's complement).
HashRound(hash, char) ==
    LET lo == hash.lo * 32 - hash.lo + char IN
    [hi |-> (hash.hi * 32 - hash.hi + (lo \div 65536)) % 65536, lo |-> lo % 65536]

\* The loop of hashCode from character k on.  The test that hash is a 32-bit
\* integer is what "hash & hash" establishes; it also has every round computed
\* before the next one starts.
RECURSIVE HashLoop(_, _, _)
HashLoop(s, k, hash) ==
    IF k > Len(s) \/ hash \notin [hi : 0..65535, lo : 0..65535] THEN hash
    ELSE HashLoop(s, k + 1, HashRound(hash, charCodeAt[s[k]]))

\* Math.abs of a 32-bit integer (the result is in 0..2^31).
MathAbs(hash) ==
    IF hash.hi < 32768 THEN hash
    ELSE [hi |-> (65535 - hash.hi + (IF hash.lo = 0 THEN 1 ELSE 0)) % 65536,
          lo |-> (65536 - hash.lo) % 65536]

\* Number.prototype.toString(16).
HexDigits == <<"0", "1", "2", "3", "4", "5", "6", "7", "8", "9", "a", "b", "c", "d", "e", "f">>
Hex4(n) ==
    <<HexDigits[(n \div 4096) + 1], HexDigits[((n \div 256) % 16) + 1],
      HexDigits[((n \div 16) % 16) + 1], HexDigits[(n % 16) + 1]>>
RECURSIVE StripZeros(_)
StripZeros(s) == IF s # <<>> /\ s[1] = "0" THEN StripZeros(Tail(s)) ELSE s
toString16(n) ==
    IF n = [hi |-> 0, lo |-> 0] THEN <<"0">> ELSE StripZeros(Hex4(n.hi) \o Hex4(n.lo))

hashCode(s) == toString16(MathAbs(HashLoop(s, 1, [hi |-> 0, lo |-> 0])))

\* new URLSearchParams(search).get(name); <<>> stands for both null and ''
\* (the code only tests the value for truthiness).
searchParamsGet(search, name) ==
    LET pairs == split(sliceFrom(search, 1), {"&"})
        key(p) == SubSeq(p, 1, IndexOfAny(p, {"="}, 1) - 1)
        matches == SelectSeq(pairs, LAMBDA p : p # <<>> /\ key(p) = name)
    IN  IF matches = <<>> THEN <<>>
        ELSE sliceFrom(matches[1], IndexOfAny(matches[1], {"="}, 1))

\* pathname.replace(/^\/|\/$/g, '')
trimSlashes(pathname) ==
    LET a == IF startsWith(pathname, <<"/">>) THEN sliceFrom(pathname, 1) ELSE pathname
    IN  IF endsWith(a, <<"/">>) THEN dropLast(a, 1) ELSE a

\* The loop over fileExtensions.
fileExtensions == <<<<".", "h", "t", "m", "l">>, <<".", "h", "t", "m">>, <<".", "p", "h", "p">>, <<".", "a", "s", "p">>, <<".", "a", "s", "p", "x">>, <<".", "j", "s", "p">>>>
RECURSIVE stripExtension(_, _)
stripExtension(pathname, k) ==
    IF k > Len(fileExtensions) THEN pathname
    ELSE IF endsWith(toLowerCase(pathname), fileExtensions[k])
    THEN dropLast(pathname, Len(fileExtensions[k]))
    ELSE stripExtension(pathname, k + 1)

\* A variant of the query part that takes the key parameter (id, page, slug)
\* whether or not URL filenames are preserved.
withQueryKeyParam(filename, search) ==
    LET id == searchParamsGet(search, <<"i", "d">>)
        page == searchParamsGet(search, <<"p", "a", "g", "e">>)
        slug == searchParamsGet(search, <<"s", "l", "u", "g">>)
        keyParam == IF id # <<>> THEN id ELSE IF page # <<>> THEN page ELSE slug
    IN  IF search # <<>> /\ keyParam # <<>>
        THEN filename \o <<"-">> \o sanitize(keyParam) ELSE filename

\* A variant of the query part that looks for page before id.
withQueryPageFirst(filename, search) ==
    IF search = <<>> THEN filename
    ELSE IF preserveUrlFilenames
    THEN LET queryStr == sliceFrom(search, 1) IN
         IF Len(queryStr) > 0 THEN filename \o <<"-">> \o hashCode(queryStr) ELSE filename
    ELSE LET id == searchParamsGet(search, <<"i", "d">>)
             page == searchParamsGet(search, <<"p", "a", "g", "e">>)
             slug == searchParamsGet(search, <<"s", "l", "u", "g">>)
             keyParam == IF page # <<>> THEN page ELSE IF id # <<>> THEN id ELSE slug
         IN  IF keyParam # <<>> THEN filename \o <<"-">> \o sanitize(keyParam) ELSE filename

\* The query part of parseUrl's filename.
withQuery(filename, search) ==
    IF search = <<>> THEN filename
    ELSE IF preserveUrlFilenames
    THEN LET queryStr == sliceFrom(search, 1) IN
         IF Len(queryStr) > 0 THEN filename \o <<"-">> \o hashCode(queryStr) ELSE filename
    ELSE LET id == searchParamsGet(search, <<"i", "d">>)
             page == searchParamsGet(search, <<"p", "a", "g", "e">>)
             slug == searchParamsGet(search, <<"s", "l", "u", "g">>)
             keyParam == IF id # <<>> THEN id ELSE IF page # <<>> THEN page ELSE slug
         IN  IF keyParam # <<>> THEN filename \o <<"-">> \o sanitize(keyParam) ELSE filename

\* The catch branch of parseUrl: new URL(url) threw.
parseUrlFallback(url) ==
    LET noScheme == IF startsWith(url, <<"h", "t", "t", "p", "s", ":", "/", "/">>) THEN sliceFrom(url, 8)
                    ELSE IF startsWith(url, <<"h", "t", "t", "p", ":", "/", "/">>) THEN sliceFrom(url, 7)
                    ELSE url
        noWww == IF noScheme # url /\ startsWith(noScheme, <<"w", "w", "w", ".">>)
                 THEN sliceFrom(noScheme, 4) ELSE noScheme
        first == split(noWww, {"?", "#"})[1]
        sanitizedUrl == IF endsWith(first, <<"/">>) THEN dropLast(first, 1) ELSE first
        parts == split(sanitizedUrl, {"/"})
        filename == IF Len(parts) > 1 THEN parts[Len(parts)] ELSE <<"i", "n", "d", "e", "x">>
    IN  [domain |-> parts[1],
         pathParts |-> SubSeq(parts, 2, Len(parts) - 1),
         filename |-> sanitize(IF filename # <<>> THEN filename ELSE <<"i", "n", "d", "e", "x">>) \o <<".", "m", "d">>]

\* The try branch of parseUrl, for the URL object u.
parseUrlTry(u) ==
    LET domain == IF startsWith(u.hostname, <<"w", "w", "w", ".">>)
                  THEN sliceFrom(u.hostname, 4) ELSE u.hostname
        pathname == stripExtension(trimSlashes(u.pathname), 1)
        pathParts == IF pathname # <<>> THEN filterBoolean(split(pathname, {"/"})) ELSE <<>>
        last == IF Len(pathParts) > 0 THEN pathParts[Len(pathParts)] ELSE <<"i", "n", "d", "e", "x">>
        filename == sanitize(withQuery(last, u.search))
    IN  [domain |-> domain,
         pathParts |-> IF Len(pathParts) > 0 THEN dropLast(pathParts, 1) ELSE pathParts,
         filename |-> (IF filename = <<>> THEN <<"i", "n", "d", "e", "x">> ELSE filename) \o <<".", "m", "d">>]

\* A variant of parseUrl that reads a path ending in '/' as a directory and
\* names its page 'index'.
parseUrlDirectoryIndex(url) ==
    LET u == urlObj(url)
        parsed == parseUrlTry(u)
        asDir == parseUrlTry([u EXCEPT !.pathname = @ \o <<"x">>])
    IN  IF ~u.ok THEN parseUrlFallback(url)
        ELSE IF Len(u.pathname) > 1 /\ endsWith(u.pathname, <<"/">>)
        THEN [parsed EXCEPT !.pathParts = asDir.pathParts, !.filename = <<"i", "n", "d", "e", "x">> \o <<".", "m", "d">>]
        ELSE parsed

parseUrl(url) ==
    LET u == urlObj(url) IN
    IF ~u.ok THEN parseUrlFallback(url) ELSE parseUrlTry(u)

\* OUTPUT_DIR = cliConfig.outputDir, 'dist' by default.
OUTPUT_DIR == <<"d", "i", "s", "t">>

\* path.join on segments that hold no separator and no dot segment: the empty
\* ones are skipped.
pathJoin(parts) == join(filterBoolean(parts), <<"/">>)

\* A page title, or null.
Null == [isNull |-> TRUE, value |-> <<>>]
Str(v) == [isNull |-> FALSE, value |-> v]

\* dirParts of getOutputPaths.
dirParts(url) ==
    LET parsed == parseUrl(url)
        domainDir == sanitize(parsed.domain)
        pathDirs == [k \in 1..Len(parsed.pathParts) |-> sanitize(parsed.pathParts[k])]
    IN  IF useDomainSubfolders THEN <<OUTPUT_DIR, domainDir>> \o pathDirs
        ELSE <<OUTPUT_DIR>> \o pathDirs

\* A variant of the filename that numbers a page mapped before instead of
\* reusing its name.
outputFilenameNumbered(url, pageTitle) ==
    IF \E k \in 1..Len(mapCalls) : mapCalls[k].url = url
    THEN <<"2", "-">> \o parseUrl(url).filename
    ELSE parseUrl(url).filename

\* A variant of the filename in which title naming wins over
\* preserveUrlFilenames.
outputFilenameTitleFirst(url, pageTitle) ==
    LET sanitized == sanitize(pageTitle.value) IN
    IF usePageTitlesForFilenames /\ sanitized # <<>>
    THEN SubSeq(sanitized, 1, Min(Len(sanitized), 100)) \o <<".", "m", "d">>
    ELSE parseUrl(url).filename

\* filename of getOutputPaths.
outputFilename(url, pageTitle) ==
    LET defaultFilename == parseUrl(url).filename
        sanitized == sanitize(pageTitle.value)
        titleFilename == IF Len(sanitized) > 100 THEN SubSeq(sanitized, 1, 100)
                         ELSE sanitized
    IN  IF usePageTitlesForFilenames /\ ~pageTitle.isNull /\ pageTitle.value # <<>>
           /\ ~preserveUrlFilenames /\ titleFilename # <<>>
        THEN titleFilename \o <<".", "m", "d">>
        ELSE defaultFilename

getOutputPaths(url, pageTitle) ==
    LET dirPath == pathJoin(dirParts(url)) IN
    [dirPath |-> dirPath,
     filePath |-> pathJoin(<<dirPath, outputFilename(url, pageTitle)>>)]

\* The URLs given to the path mapper: pages with and without a trailing slash,
\* an extension, a query string (with key parameters in either order, with an
\* empty value, with none), path segments that sanitize to nothing, and
\* strings new URL() rejects.
Urls ==
    {<<"h", "t", "t", "p", "s", ":", "/", "/", "e", "x", "a", "m", "p", "l", "e", ".", "c", "o", "m", "/", "a", "b", "o", "u", "t", "/">>,
     <<"h", "t", "t", "p", "s", ":", "/", "/", "e", "x", "a", "m", "p", "l", "e", ".", "c", "o", "m", "/", "a", "b", "o", "u", "t">>,
     <<"h", "t", "t", "p", "s", ":", "/", "/", "e", "x", "a", "m", "p", "l", "e", ".", "c", "o", "m", "/">>,
     <<"h", "t", "t", "p", "s", ":", "/", "/", "w", "w", "w", ".", "e", "x", "a", "m", "p", "l", "e", ".", "c", "o", "m", "/", "b", "l", "o", "g", "/", "p", "o", "s", "t", "1", ".", "h", "t", "m", "l">>,
     <<"h", "t", "t", "p", "s", ":", "/", "/", "e", "x", "a", "m", "p", "l", "e", ".", "c", "o", "m", "/", "b", "l", "o", "g", "/", "p", "o", "s", "t", "/">>,
     <<"h", "t", "t", "p", "s", ":", "/", "/", "e", "x", "a", "m", "p", "l", "e", ".", "c", "o", "m", "/", "p", "r", "o", "d", "u", "c", "t", "s", "?", "i", "d", "=", "1", "2", "3", "&", "c", "a", "t", "e", "g", "o", "r", "y", "=", "b", "o", "o", "k", "s">>,
     <<"h", "t", "t", "p", "s", ":", "/", "/", "e", "x", "a", "m", "p", "l", "e", ".", "c", "o", "m", "/", "p", "r", "o", "d", "u", "c", "t", "s", "?", "i", "d", "=", "1", "2", "4", "&", "c", "a", "t", "e", "g", "o", "r", "y", "=", "b", "o", "o", "k", "s">>,
     <<"h", "t", "t", "p", "s", ":", "/", "/", "o", "t", "h", "e", "r", ".", "o", "r", "g", "/", "s", "h", "o", "p", "/", "i", "t", "e", "m", "?", "i", "d", "=", "1", "2", "3", "&", "c", "a", "t", "e", "g", "o", "r", "y", "=", "b", "o", "o", "k", "s">>,
     <<"h", "t", "t", "p", "s", ":", "/", "/", "e", "x", "a", "m", "p", "l", "e", ".", "c", "o", "m", "/", "p", "r", "o", "d", "u", "c", "t", "s", "?", "A", "a">>,
     <<"h", "t", "t", "p", "s", ":", "/", "/", "e", "x", "a", "m", "p", "l", "e", ".", "c", "o", "m", "/", "p", "r", "o", "d", "u", "c", "t", "s", "?", "B", "B">>,
     <<"h", "t", "t", "p", "s", ":", "/", "/", "e", "x", "a", "m", "p", "l", "e", ".", "c", "o", "m", "/", "?", "p", "a", "g", "e", "=", "2", "&", "i", "d", "=", "7">>,
     <<"h", "t", "t", "p", "s", ":", "/", "/", "e", "x", "a", "m", "p", "l", "e", ".", "c", "o", "m", "/", "p", "r", "o", "d", "u", "c", "t", "s", "?">>,
     <<"h", "t", "t", "p", "s", ":", "/", "/", "e", "x", "a", "m", "p", "l", "e", ".", "c", "o", "m", "/", "p", "r", "o", "d", "u", "c", "t", "s", "?", "i", "d", "=", "&", "p", "a", "g", "e", "=", "2">>,
     <<"h", "t", "t", "p", "s", ":", "/", "/", "e", "x", "a", "m", "p", "l", "e", ".", "c", "o", "m", "/", "p", "r", "o", "d", "u", "c", "t", "s", "?", "s", "l", "u", "g", "=", "s", "&", "p", "a", "g", "e", "=", "2">>,
     <<"h", "t", "t", "p", "s", ":", "/", "/", "e", "x", "a", "m", "p", "l", "e", ".", "c", "o", "m", "/", "a", "/", "c", "o", "n", "/", "b">>,
     <<"h", "t", "t", "p", "s", ":", "/", "/", "e", "x", "a", "m", "p", "l", "e", ".", "c", "o", "m", "/", "d", "o", "c", "s", "/", ".", ".", ".">>,
     <<"e", "x", "a", "m", "p", "l", "e", ".", "c", "o", "m", "/", "d", "o", "c", "s", "/", "p", "a", "g", "e">>,
     <<"e", "x", "a", "m", "p", "l", "e", ".", "c", "o", "m", "/", ".", ".", "/", "x">>,
     <<"e", "x", "a", "m", "p", "l", "e", ".", "c", "o", "m", "/", "d", "o", "c", "s", "/", ".", ".">>,
     <<"/", "d", "o", "c", "s", "/", "p", "a", "g", "e", "?", "i", "d", "=", "1">>,
     <<>>}

\* The titles extractPageTitle can hand over: none, an empty one, a plain one,
\* one with illegal characters, one that sanitizes to nothing, a long one.
LongTitle == [k \in 1..(100 + 1) |-> "a"]
PageTitles ==
    {Null, Str(<<>>), Str(<<"A", "b", "o", "u", "t", " ", "U", "s">>), Str(<<"a", "/", "b", ":", " ", "c">>), Str(<<".", ".">>), Str(LongTitle)}

\* processUrl calls getOutputPaths(url, pageTitle); two calls are kept to be
\* compared.
CallGetOutputPaths ==
    /\ Len(mapCalls) < 2
    /\ \E url \in Urls, pageTitle \in PageTitles :
           mapCalls' = Append(mapCalls, [url |-> url, pageTitle |-> pageTitle,
                                         paths |-> getOutputPaths(url, pageTitle)])
    /\ UNCHANGED <<pipeVars, sitemapVars, useDomainSubfolders, preserveUrlFilenames, domVars, fsVars>>

PathNext == CallGetOutputPaths

\* The path mapper under every combination of the file options.
PathInit ==
    /\ MAX_CONCURRENT = 1
    /\ RETRY_ATTEMPTS = 0
    /\ usePageTitlesForFilenames \in BOOLEAN
    /\ total = 0
    /\ trace = FALSE
    /\ PipeIdle
    /\ SitemapIdle
    /\ useDomainSubfolders \in BOOLEAN
    /\ preserveUrlFilenames \in BOOLEAN
    /\ mapCalls = <<>>
    /\ DomIdle
    /\ FsIdle

PathSpec == PathInit /\ [][PathNext]_vars

(* ---------------------------------------------------------------------- *)
(* Path mapper: properties                                                 *)
(* ---------------------------------------------------------------------- *)

MapCalls == {mapCalls[k] : k \in 1..Len(mapCalls)}

\* The filename is taken from the URL: title naming is off.
UrlPathPolicy == ~usePageTitlesForFilenames

\* C11, as claimed: under the URL-path policy with domain subfolders on,
\* https://example.com/about/ maps to <root>/example.com/about/index.md.
C11_TrailingSlashIndex ==
    \A c \in MapCalls :
        (c.url = <<"h", "t", "t", "p", "s", ":", "/", "/", "e", "x", "a", "m", "p", "l", "e", ".", "c", "o", "m", "/", "a", "b", "o", "u", "t", "/">> /\ UrlPathPolicy /\ useDomainSubfolders)
        => c.paths.filePath = <<"d", "i", "s", "t", "/", "e", "x", "a", "m", "p", "l", "e", ".", "c", "o", "m", "/", "a", "b", "o", "u", "t", "/", "i", "n", "d", "e", "x", ".", "m", "d">>

\* C11, as the code has it: under the URL-path policy with domain subfolders
\* on, a query-less URL whose path ends in '/' after a non-empty segment p maps
\* to the path of the same URL without that '/', <root>/<host>/.../p.md: p is
\* the filename and not a directory, and "index" names the empty path only.
C11_TrailingSlashDropped ==
    \A c \in MapCalls :
        (UrlPathPolicy /\ useDomainSubfolders) =>
            /\ c.url = <<"h", "t", "t", "p", "s", ":", "/", "/", "e", "x", "a", "m", "p", "l", "e", ".", "c", "o", "m", "/", "a", "b", "o", "u", "t", "/">>
               => c.paths = [dirPath |-> <<"d", "i", "s", "t", "/", "e", "x", "a", "m", "p", "l", "e", ".", "c", "o", "m">>,
                             filePath |-> <<"d", "i", "s", "t", "/", "e", "x", "a", "m", "p", "l", "e", ".", "c", "o", "m", "/", "a", "b", "o", "u", "t", ".", "m", "d">>]
            /\ c.url = <<"h", "t", "t", "p", "s", ":", "/", "/", "e", "x", "a", "m", "p", "l", "e", ".", "c", "o", "m", "/", "b", "l", "o", "g", "/", "p", "o", "s", "t", "/">>
               => c.paths = [dirPath |-> <<"d", "i", "s", "t", "/", "e", "x", "a", "m", "p", "l", "e", ".", "c", "o", "m", "/", "b", "l", "o", "g">>,
                             filePath |-> <<"d", "i", "s", "t", "/", "e", "x", "a", "m", "p", "l", "e", ".", "c", "o", "m", "/", "b", "l", "o", "g", "/", "p", "o", "s", "t", ".", "m", "d">>]
            /\ c.url = <<"h", "t", "t", "p", "s", ":", "/", "/", "e", "x", "a", "m", "p", "l", "e", ".", "c", "o", "m", "/">>
               => c.paths = [dirPath |-> <<"d", "i", "s", "t", "/", "e", "x", "a", "m", "p", "l", "e", ".", "c", "o", "m">>,
                             filePath |-> <<"d", "i", "s", "t", "/", "e", "x", "a", "m", "p", "l", "e", ".", "c", "o", "m", "/", "i", "n", "d", "e", "x", ".", "m", "d">>]

C11_Witness ==
    \E c \in MapCalls :
        /\ c.url = <<"h", "t", "t", "p", "s", ":", "/", "/", "e", "x", "a", "m", "p", "l", "e", ".", "c", "o", "m", "/", "a", "b", "o", "u", "t", "/">>
        /\ UrlPathPolicy /\ useDomainSubfolders
        /\ c.paths.filePath = <<"d", "i", "s", "t", "/", "e", "x", "a", "m", "p", "l", "e", ".", "c", "o", "m", "/", "a", "b", "o", "u", "t", ".", "m", "d">>

\* The query string of a URL new URL() accepts, without its '?'.
QueryOf(url) == sliceFrom(urlObj(url).search, 1)
HasQuery(url) == urlObj(url).ok /\ Len(urlObj(url).search) > 1
SameHostAndPath(a, b) ==
    /\ urlObj(a).hostname = urlObj(b).hostname
    /\ urlObj(a).pathname = urlObj(b).pathname

\* C12, as claimed: with preserveUrlFilenames on, two URLs with the same host
\* and path but distinct non-empty query strings map to distinct file paths.
C12_DistinctQueriesDistinctNames ==
    \A c, d \in MapCalls :
        (/\ preserveUrlFilenames
         /\ HasQuery(c.url) /\ HasQuery(d.url)
         /\ SameHostAndPath(c.url, d.url)
         /\ QueryOf(c.url) # QueryOf(d.url))
        => c.paths.filePath # d.paths.filePath

LastIndexOf(s, c, k) ==
    IF \A j \in 1..k : s[j] # c THEN 0
    ELSE CHOOSE j \in 1..k : s[j] = c /\ \A after \in (j + 1)..k : s[after] # c
BaseName(p) == sliceFrom(p, LastIndexOf(p, "/", Len(p)))
LastPathSegment(url) ==
    LET segments == filterBoolean(split(urlObj(url).pathname, {"/"})) IN
    IF segments = <<>> THEN <<"i", "n", "d", "e", "x">> ELSE segments[Len(segments)]

\* The text between the last '-' of a file path's name and its '.md'.
HashSuffix(p) ==
    LET name == BaseName(p) IN
    SubSeq(name, LastIndexOf(name, "-", Len(name)) + 1, Len(name) - 3)

LowerHex == {HexDigits[k] : k \in 1..Len(HexDigits)}

\* A URL without its query string, and whether a query string holds a
\* parameter of the given name.
WithoutQuery(url) == SubSeq(url, 1, IndexOfAny(url, {"?"}, 1) - 1)
ParamPresent(search, name) ==
    LET pairs == split(sliceFrom(search, 1), {"&"})
    IN  \E k \in 1..Len(pairs) :
            pairs[k] # <<>> /\ SubSeq(pairs[k], 1, IndexOfAny(pairs[k], {"="}, 1) - 1) = name
KeyParams == <<<<"i", "d">>, <<"p", "a", "g", "e">>, <<"s", "l", "u", "g">>>>

\* C27, as claimed: with preserveUrlFilenames off and the filename taken from
\* the URL, a URL with a query string gets the filename of the URL without
\* the query string followed by - and the sanitized value of the first of id,
\* page, slug that is present in the query string, and that very filename
\* when none of the three is present.
C27_KeyParameterSuffix ==
    \A c \in MapCalls :
        (~preserveUrlFilenames /\ HasQuery(c.url)
            /\ (~usePageTitlesForFilenames \/ c.pageTitle.isNull))
        => LET search == urlObj(c.url).search
               bare == parseUrl(WithoutQuery(c.url)).filename
               present == SelectSeq(KeyParams, LAMBDA name : ParamPresent(search, name))
               name == BaseName(c.paths.filePath)
           IN  IF present = <<>> THEN name = bare
               ELSE name = dropLast(bare, 3) \o <<"-">>
                              \o sanitize(searchParamsGet(search, present[1]))
                              \o <<".", "m", "d">>

\* C27, as the code has it: with preserveUrlFilenames off and the filename
\* taken from the URL, a URL with a query string gets the filename of the
\* URL without the query string followed by - and the sanitized value of the
\* first of id, page, slug whose value is not empty (an id without a value
\* is passed over), and that very filename when none of the three has a
\* value.
C27_FirstNonEmptyKeyParameter ==
    \A c \in MapCalls :
        (~preserveUrlFilenames /\ HasQuery(c.url)
            /\ (~usePageTitlesForFilenames \/ c.pageTitle.isNull))
        => LET search == urlObj(c.url).search
               bare == parseUrl(WithoutQuery(c.url)).filename
               valued == SelectSeq(KeyParams,
                                   LAMBDA name : searchParamsGet(search, name) # <<>>)
               name == BaseName(c.paths.filePath)
           IN  /\ \A k \in 1..Len(valued) : ParamPresent(search, valued[k])
               /\ IF valued = <<>> THEN name = bare
                  ELSE name = dropLast(bare, 3) \o <<"-">>
                                 \o sanitize(searchParamsGet(search, valued[1]))
                                 \o <<".", "m", "d">>

\* ?page=2&id=7 was named after id, ?id=&page=2 after page, and a query
\* without any of the three left the name as it is.
C27_Witness ==
    /\ ~preserveUrlFilenames
    /\ ~usePageTitlesForFilenames
    /\ Len(mapCalls) = 2
    /\ mapCalls[1].url = <<"h", "t", "t", "p", "s", ":", "/", "/", "e", "x", "a", "m", "p", "l", "e", ".", "c", "o", "m", "/", "?", "p", "a", "g", "e", "=", "2", "&", "i", "d", "=", "7">>
    /\ BaseName(mapCalls[1].paths.filePath) = <<"i", "n", "d", "e", "x", "-", "7", ".", "m", "d">>
    /\ mapCalls[2].url = <<"h", "t", "t", "p", "s", ":", "/", "/", "e", "x", "a", "m", "p", "l", "e", ".", "c", "o", "m", "/", "p", "r", "o", "d", "u", "c", "t", "s", "?", "i", "d", "=", "&", "p", "a", "g", "e", "=", "2">>
    /\ BaseName(mapCalls[2].paths.filePath) = <<"p", "r", "o", "d", "u", "c", "t", "s", "-", "2", ".", "m", "d">>

\* C14: with preserveUrlFilenames on, a URL with a non-empty query string gets
\* the filename <last path segment>-<hash>.md, where <hash> is a non-empty
\* string of lowercase hexadecimal digits that is the same for two URLs with
\* the same query string, whatever their host, path and title;
\* /products?id=123&category=books gives products-799261bf.md.
C14_QueryHashSuffix ==
    \A c \in MapCalls :
        (preserveUrlFilenames /\ HasQuery(c.url)) =>
            LET hash == HashSuffix(c.paths.filePath) IN
            /\ BaseName(c.paths.filePath) = LastPathSegment(c.url) \o <<"-">> \o hash \o <<".", "m", "d">>
            /\ hash # <<>>
            /\ \A k \in 1..Len(hash) : hash[k] \in LowerHex
            /\ \A d \in MapCalls :
                   (HasQuery(d.url) /\ QueryOf(d.url) = QueryOf(c.url))
                   => HashSuffix(d.paths.filePath) = hash
            /\ QueryOf(c.url) = <<"i", "d", "=", "1", "2", "3", "&", "c", "a", "t", "e", "g", "o", "r", "y", "=", "b", "o", "o", "k", "s">> => hash = <<"7", "9", "9", "2", "6", "1", "b", "f">>

C14_Witness ==
    /\ preserveUrlFilenames
    /\ Len(mapCalls) = 2
    /\ mapCalls[1].url = <<"h", "t", "t", "p", "s", ":", "/", "/", "e", "x", "a", "m", "p", "l", "e", ".", "c", "o", "m", "/", "p", "r", "o", "d", "u", "c", "t", "s", "?", "i", "d", "=", "1", "2", "3", "&", "c", "a", "t", "e", "g", "o", "r", "y", "=", "b", "o", "o", "k", "s">>
    /\ mapCalls[2].url = <<"h", "t", "t", "p", "s", ":", "/", "/", "o", "t", "h", "e", "r", ".", "o", "r", "g", "/", "s", "h", "o", "p", "/", "i", "t", "e", "m", "?", "i", "d", "=", "1", "2", "3", "&", "c", "a", "t", "e", "g", "o", "r", "y", "=", "b", "o", "o", "k", "s">>
    /\ mapCalls[1].pageTitle # mapCalls[2].pageTitle
    /\ BaseName(mapCalls[1].paths.filePath) = <<"p", "r", "o", "d", "u", "c", "t", "s", "-", "7", "9", "9", "2", "6", "1", "b", "f", ".", "m", "d">>
    /\ BaseName(mapCalls[2].paths.filePath) = <<"i", "t", "e", "m", "-", "7", "9", "9", "2", "6", "1", "b", "f", ".", "m", "d">>

\* The filename a title gives: its sanitized form cut to 100 characters, <<>>
\* if none.
TitleName(pageTitle) ==
    IF pageTitle = Str(<<"A", "b", "o", "u", "t", " ", "U", "s">>) THEN <<"A", "b", "o", "u", "t", " ", "U", "s">>
    ELSE IF pageTitle = Str(<<"a", "/", "b", ":", " ", "c">>) THEN <<"a", "b", " ", "c">>
    ELSE IF pageTitle = Str(LongTitle) THEN [k \in 1..100 |-> "a"]
    ELSE <<>>

\* C15: with preserveUrlFilenames on the filename is the URL-derived one even
\* if title naming is on and a title exists; with only title naming on and a
\* title whose sanitized form is not empty, the filename is the sanitized title
\* cut to 100 characters plus .md; in every other case it is the URL-derived
\* filename.
C15_PolicyPrecedence ==
    \A c \in MapCalls :
        LET name == BaseName(c.paths.filePath)
            urlDerived == parseUrl(c.url).filename
        IN  /\ preserveUrlFilenames => name = urlDerived
            /\ (~preserveUrlFilenames /\ usePageTitlesForFilenames
                /\ TitleName(c.pageTitle) # <<>>)
               => name = TitleName(c.pageTitle) \o <<".", "m", "d">>
            /\ (~usePageTitlesForFilenames \/ TitleName(c.pageTitle) = <<>>)
               => name = urlDerived

C15_Witness ==
    \E c \in MapCalls :
        /\ usePageTitlesForFilenames /\ preserveUrlFilenames
        /\ c.pageTitle = Str(<<"A", "b", "o", "u", "t", " ", "U", "s">>)
        /\ c.url = <<"h", "t", "t", "p", "s", ":", "/", "/", "e", "x", "a", "m", "p", "l", "e", ".", "c", "o", "m", "/", "p", "r", "o", "d", "u", "c", "t", "s", "?", "i", "d", "=", "1", "2", "3", "&", "c", "a", "t", "e", "g", "o", "r", "y", "=", "b", "o", "o", "k", "s">>
        /\ BaseName(c.paths.filePath) = <<"p", "r", "o", "d", "u", "c", "t", "s", "-", "7", "9", "9", "2", "6", "1", "b", "f", ".", "m", "d">>

\* A path component is safe: not empty and without a separator or a character
\* sanitize removes.
SafeComponent(s) == s # <<>> /\ \A k \in 1..Len(s) : s[k] \notin IllegalChars

\* C16, as claimed: for every URL, well-formed or malformed, every directory
\* component getOutputPaths joins (the host segment included) and the filename
\* stem before .md is non-empty and holds no separator or reserved character.
C16_NoEmptyComponent ==
    \A c \in MapCalls :
        LET name == BaseName(c.paths.filePath)
            parts == dirParts(c.url)
        IN  /\ endsWith(name, <<".", "m", "d">>)
            /\ SafeComponent(dropLast(name, 3))
            /\ \A k \in 1..Len(parts) : SafeComponent(parts[k])

(* ---------------------------------------------------------------------- *)
(* HTML rewriter and title extractor: HtmlProcessor                        *)
(* Markup is the sequence of its tokens (tags with their attributes, text);*)
(* attribute values and text are sequences of characters.                  *)
(* ---------------------------------------------------------------------- *)

\* The tokens of markup.
Doctype == [type |-> "doctype", name |-> "html", attrs |-> <<>>, data |-> <<>>]
Open(name, attrs) == [type |-> "open", name |-> name, attrs |-> attrs, data |-> <<>>]
Close(name) == [type |-> "close", name |-> name, attrs |-> <<>>, data |-> <<>>]
Text(data) == [type |-> "text", name |-> "#text", attrs |-> <<>>, data |-> data]
Attr(name, value) == [name |-> name, value |-> value]

\* The nodes of a document; id tells the nodes of one document apart.
Element(id, name, attrs, children) ==
    [id |-> id, name |-> name, attrs |-> attrs, children |-> children, data |-> <<>>]
TextNode(id, data) ==
    [id |-> id, name |-> "#text", attrs |-> <<>>, children |-> <<>>, data |-> data]
IsElement(node) == node.name # "#text"

\* Elements without content and end tag.
VoidElements == {"meta", "img", "br"}

\* The tree builder of new JSDOM(html), for markup whose tags are balanced:
\* the nodes from token pos up to the end tag of the enclosing element.
RECURSIVE ParseNodes(_, _, _)
ParseNodes(tokens, pos, nextId) ==
    IF pos > Len(tokens) \/ tokens[pos].type = "close"
    THEN [nodes |-> <<>>, pos |-> pos, nextId |-> nextId]
    ELSE LET t == tokens[pos] IN
         IF t.type = "doctype" THEN ParseNodes(tokens, pos + 1, nextId)
         ELSE IF t.type = "text" \/ t.name \in VoidElements
         THEN LET rest == ParseNodes(tokens, pos + 1, nextId + 1)
                  node == IF t.type = "text" THEN TextNode(nextId, t.data)
                          ELSE Element(nextId, t.name, t.attrs, <<>>)
              IN  [rest EXCEPT !.nodes = <<node>> \o @]
         ELSE LET inner == ParseNodes(tokens, pos + 1, nextId + 1)
                  rest == ParseNodes(tokens, inner.pos + 1, inner.nextId)
              IN  [rest EXCEPT !.nodes =
                       <<Element(nextId, t.name, t.attrs, inner.nodes)>> \o @]

\* The number of leading title and meta elements of a fragment: the parser
\* puts them into the head it creates.
RECURSIVE HeadCount(_, _)
HeadCount(nodes, k) ==
    IF k <= Len(nodes) /\ nodes[k].name \in {"title", "meta"}
    THEN HeadCount(nodes, k + 1) ELSE k - 1

\* new JSDOM(html).window.document: a document is the sequence of its root
\* elements, one (documentElement) or none.  Markup that is not a whole
\* document is wrapped in html, head and body.
JSDOM(markup) ==
    LET parsed == ParseNodes(markup, 1, 1)
        top == parsed.nodes
        n == parsed.nextId
        h == HeadCount(top, 1)
    IN  IF Len(top) = 1 /\ top[1].name = "html" THEN top
        ELSE <<Element(n, "html", <<>>,
                 <<Element(n + 1, "head", <<>>, SubSeq(top, 1, h)),
                   Element(n + 2, "body", <<>>, SubSeq(top, h + 1, Len(top)))>>)>>

\* Adjacent text runs together when markup is written out.
RECURSIVE MergeText(_)
MergeText(tokens) ==
    IF Len(tokens) < 2 THEN tokens
    ELSE IF tokens[1].type = "text" /\ tokens[2].type = "text"
    THEN MergeText(<<Text(tokens[1].data \o tokens[2].data)>> \o SubSeq(tokens, 3, Len(tokens)))
    ELSE <<tokens[1]>> \o MergeText(Tail(tokens))

\* element.outerHTML
RECURSIVE Serialize(_)
RECURSIVE SerializeAll(_, _)
SerializeAll(nodes, k) ==
    IF k > Len(nodes) THEN <<>> ELSE Serialize(nodes[k]) \o SerializeAll(nodes, k + 1)
Serialize(node) ==
    IF ~IsElement(node) THEN <<Text(node.data)>>
    ELSE IF node.name \in VoidElements THEN <<Open(node.name, node.attrs)>>
    ELSE <<Open(node.name, node.attrs)>> \o SerializeAll(node.children, 1)
         \o <<Close(node.name)>>
outerHTML(node) == MergeText(Serialize(node))

\* element.getAttribute(name): <<>> stands for null and for ''.
getAttribute(node, name) ==
    LET found == SelectSeq(node.attrs, LAMBDA a : a.name = name) IN
    IF found = <<>> THEN <<>> ELSE found[1].value

\* node.textContent
RECURSIVE textContent(_)
RECURSIVE textContentAll(_, _)
textContentAll(nodes, k) ==
    IF k > Len(nodes) THEN <<>> ELSE textContent(nodes[k]) \o textContentAll(nodes, k + 1)
textContent(node) ==
    IF IsElement(node) THEN textContentAll(node.children, 1) ELSE node.data

\* The selectors of the model: tag, .class, #id, parent > tag, tag[name="value"],
\* *, and text that is no selector.
Selector(kind, parent, tag, value) ==
    [kind |-> kind, parent |-> parent, tag |-> tag, value |-> value]
TagSelector(tag) == Selector("tag", "", tag, <<>>)
ClassSelector(value) == Selector("class", "", "", value)
IdSelector(value) == Selector("id", "", "", value)
ChildSelector(parent, tag) == Selector("child", parent, tag, <<>>)
NameSelector(tag, value) == Selector("name", "", tag, value)
AnySelector == Selector("any", "", "", <<>>)
InvalidSelector == Selector("invalid", "", "", <<>>)

\* element.matches(selector); parent is <<>> for the root element.
Matches(selector, node, parent) ==
    CASE selector.kind = "tag" -> node.name = selector.tag
      [] selector.kind = "class" -> getAttribute(node, "class") = selector.value
      [] selector.kind = "id" -> getAttribute(node, "id") = selector.value
      [] selector.kind = "child" ->
             node.name = selector.tag /\ parent # <<>> /\ parent[1].name = selector.parent
      [] selector.kind = "name" ->
             node.name = selector.tag /\ getAttribute(node, "name") = selector.value
      [] selector.kind = "any" -> TRUE
      [] OTHER -> FALSE

\* The elements of a subtree that match one of the selectors, in document
\* order.
RECURSIVE SelectIn(_, _, _)
RECURSIVE SelectInAll(_, _, _, _)
SelectInAll(nodes, parent, list, k) ==
    IF k > Len(nodes) THEN <<>>
    ELSE SelectIn(nodes[k], parent, list) \o SelectInAll(nodes, parent, list, k + 1)
SelectIn(node, parent, list) ==
    IF ~IsElement(node) THEN <<>>
    ELSE (IF \E k \in 1..Len(list) : Matches(list[k], node, parent)
          THEN <<node.id>> ELSE <<>>)
         \o SelectInAll(node.children, <<node>>, list, 1)

\* document.querySelectorAll(selectors.join(', ')): a static list of elements,
\* or a SyntaxError when one of the selectors is none.
querySelectorAll(document, list) ==
    IF \E k \in 1..Len(list) : list[k].kind = "invalid"
    THEN [throws |-> TRUE, elements |-> <<>>]
    ELSE [throws |-> FALSE, elements |-> SelectInAll(document, <<>>, list, 1)]

\* parentNode.removeChild(element) for the element with the given id (a node
\* outside the document is removed from its detached parent: the document
\* stays as it is).
RECURSIVE RemoveNode(_, _)
RemoveNode(nodes, id) ==
    LET kept == SelectSeq(nodes, LAMBDA n : n.id # id) IN
    [k \in 1..Len(kept) |-> [kept[k] EXCEPT !.children = RemoveNode(@, id)]]

\* The loop body of processUnwrapSelectors for the element with the given id:
\* its children are inserted before it and it is removed.
RECURSIVE UnwrapNode(_, _)
RECURSIVE UnwrapFrom(_, _, _)
UnwrapFrom(nodes, id, k) ==
    IF k > Len(nodes) THEN <<>>
    ELSE (IF nodes[k].id = id THEN nodes[k].children
          ELSE <<[nodes[k] EXCEPT !.children = UnwrapNode(@, id)]>>)
         \o UnwrapFrom(nodes, id, k + 1)
UnwrapNode(nodes, id) == UnwrapFrom(nodes, id, 1)

\* elements.forEach(...) of the two selector stages.
RECURSIVE RemoveEach(_, _, _)
RemoveEach(document, elements, k) ==
    IF k > Len(elements) THEN document
    ELSE RemoveEach(RemoveNode(document, elements[k]), elements, k + 1)

RECURSIVE UnwrapEach(_, _, _)
UnwrapEach(document, elements, k) ==
    IF k > Len(elements) THEN document
    ELSE IF document # <<>> /\ document[1].id = elements[k]
    THEN document   \* a second element child of the document: insertBefore throws
    ELSE UnwrapEach(UnwrapNode(document, elements[k]), elements, k + 1)

\* A variant of the unwrap loop that queries again after every element.
RECURSIVE UnwrapLive(_, _)
UnwrapLive(document, unwrap) ==
    LET found == querySelectorAll(document, unwrap).elements IN
    IF found = <<>> THEN document
    ELSE UnwrapLive(UnwrapNode(document, found[1]), unwrap)

processExcludeSelectors(document, exclude) ==
    IF exclude = <<>> THEN document
    ELSE LET found == querySelectorAll(document, exclude) IN
         IF found.throws THEN document
         ELSE RemoveEach(document, found.elements, 1)

processUnwrapSelectorsLive(document, unwrap) ==
    IF unwrap = <<>> \/ querySelectorAll(document, unwrap).throws THEN document
    ELSE UnwrapLive(document, unwrap)
processUnwrapSelectors(document, unwrap) ==
    IF unwrap = <<>> THEN document
    ELSE LET found == querySelectorAll(document, unwrap) IN
         IF found.throws THEN document
         ELSE UnwrapEach(document, found.elements, 1)

\* removeAttributes: every attribute whose name is not kept is removed from
\* every element.
keepAttributes == <<"href", "src", "alt", "title">>
includes(array, x) == \E k \in 1..Len(array) : array[k] = x
RECURSIVE removeAttributesKeepingClass(_)
removeAttributesKeepingClass(nodes) ==
    [k \in 1..Len(nodes) |->
        [nodes[k] EXCEPT
            !.attrs = SelectSeq(@, LAMBDA a : includes(keepAttributes, a.name)
                                              \/ a.name = "class"),
            !.children = removeAttributesKeepingClass(@)]]
RECURSIVE removeAttributes(_)
removeAttributes(nodes) ==
    [k \in 1..Len(nodes) |->
        [nodes[k] EXCEPT
            !.attrs = SelectSeq(@, LAMBDA a : includes(keepAttributes, a.name)),
            !.children = removeAttributes(@)]]

\* new URL(pageUrl).origin
origin(url) ==
    LET u == urlObj(url) IN
    SubSeq(url, 1, IndexOfAny(url, {":"}, 1) + 2 + Len(u.hostname))

\* absolutizeMediaUrls for one attribute of the elements of some tags: a value
\* that starts with one '/' gets the origin in front.  (The alt texts of the
\* model hold no Markdown image, so the alt rewriting leaves them as they are.)
RECURSIVE Absolutize(_, _, _, _)
Absolutize(nodes, tags, attr, org) ==
    [k \in 1..Len(nodes) |->
        [nodes[k] EXCEPT
            !.attrs = IF nodes[k].name \in tags
                      THEN [a \in 1..Len(@) |->
                               IF @[a].name = attr /\ startsWith(@[a].value, <<"/">>)
                                  /\ ~startsWith(@[a].value, <<"/", "/">>)
                               THEN Attr(attr, org \o @[a].value) ELSE @[a]]
                      ELSE @,
            !.children = Absolutize(@, tags, attr, org)]]

absolutizeMediaUrls(document, url) ==
    IF ~urlObj(url).ok THEN document
    ELSE Absolutize(Absolutize(document, {"img", "audio", "video", "source", "picture"},
                               "src", origin(url)),
                    {"a"}, "href", origin(url))

\* The node with the given id, as a sequence of one node or none.
RECURSIVE NodeWithId(_, _)
RECURSIVE NodeWithIdFrom(_, _, _)
NodeWithIdFrom(nodes, id, k) ==
    IF k > Len(nodes) THEN <<>>
    ELSE IF NodeWithId(<<nodes[k]>>, id) # <<>> THEN NodeWithId(<<nodes[k]>>, id)
    ELSE NodeWithIdFrom(nodes, id, k + 1)
NodeWithId(nodes, id) ==
    IF nodes = <<>> THEN <<>>
    ELSE IF Len(nodes) = 1
    THEN IF nodes[1].id = id THEN nodes ELSE NodeWithIdFrom(nodes[1].children, id, 1)
    ELSE NodeWithIdFrom(nodes, id, 1)

\* document.querySelector(selector): the first match, or none.
querySelector(document, selector) ==
    LET found == querySelectorAll(document, <<selector>>).elements IN
    IF found = <<>> THEN <<>> ELSE NodeWithId(document, found[1])

\* A variant of process that removes the attributes before it applies the
\* selectors.
processStrippingFirst(markup, url) ==
    LET document == JSDOM(markup)
        bare == IF selectors.removeAttributes THEN removeAttributes(document)
                ELSE document
        excluded == processExcludeSelectors(bare, selectors.exclude)
        unwrapped == processUnwrapSelectors(excluded, selectors.unwrap)
        absolutized == IF ~url.isNull /\ url.value # <<>>
                       THEN absolutizeMediaUrls(unwrapped, url.value) ELSE unwrapped
    IN  [html |-> markup,
         document |-> document,
         excluded |-> excluded,
         unwrapped |-> unwrapped,
         stripped |-> unwrapped,
         absolutized |-> absolutized,
         caught |-> absolutized = <<>>,
         returned |-> IF absolutized = <<>> THEN markup ELSE outerHTML(absolutized[1])]

\* HtmlProcessor.process, stage by stage: the document after new JSDOM, after
\* the exclude selectors, the unwrap selectors, removeAttributes and
\* absolutizeMediaUrls, and the value returned.  With no documentElement left,
\* reading its outerHTML throws and the catch returns html.
process(markup, url) ==
    LET document == JSDOM(markup)
        excluded == processExcludeSelectors(document, selectors.exclude)
        unwrapped == processUnwrapSelectors(excluded, selectors.unwrap)
        stripped == IF selectors.removeAttributes THEN removeAttributes(unwrapped)
                    ELSE unwrapped
        absolutized == IF ~url.isNull /\ url.value # <<>>
                       THEN absolutizeMediaUrls(stripped, url.value) ELSE stripped
    IN  [html |-> markup,
         document |-> document,
         excluded |-> excluded,
         unwrapped |-> unwrapped,
         stripped |-> stripped,
         absolutized |-> absolutized,
         caught |-> absolutized = <<>>,
         returned |-> IF absolutized = <<>> THEN markup ELSE outerHTML(absolutized[1])]

\* A variant of extractPageTitle that trims a candidate before it tests it.
extractPageTitleTrimFirst(markup) ==
    LET document == JSDOM(markup)
        titleElement == querySelector(document, TagSelector("title"))
        h1Element == querySelector(document, TagSelector("h1"))
        metaTitle == querySelector(document, NameSelector("meta", <<"t", "i", "t", "l", "e">>))
    IN  IF titleElement # <<>> /\ Trim(textContent(titleElement[1])) # <<>>
        THEN [isNull |-> FALSE, value |-> Trim(textContent(titleElement[1]))]
        ELSE IF h1Element # <<>> /\ Trim(textContent(h1Element[1])) # <<>>
        THEN [isNull |-> FALSE, value |-> Trim(textContent(h1Element[1]))]
        ELSE IF metaTitle # <<>> /\ Trim(getAttribute(metaTitle[1], "content")) # <<>>
        THEN [isNull |-> FALSE, value |-> Trim(getAttribute(metaTitle[1], "content"))]
        ELSE [isNull |-> TRUE, value |-> <<>>]

\* HtmlProcessor.extractPageTitle
extractPageTitle(markup) ==
    LET document == JSDOM(markup)
        titleElement == querySelector(document, TagSelector("title"))
        h1Element == querySelector(document, TagSelector("h1"))
        metaTitle == querySelector(document, NameSelector("meta", <<"t", "i", "t", "l", "e">>))
    IN  IF titleElement # <<>> /\ textContent(titleElement[1]) # <<>>
        THEN [isNull |-> FALSE, value |-> Trim(textContent(titleElement[1]))]
        ELSE IF h1Element # <<>> /\ textContent(h1Element[1]) # <<>>
        THEN [isNull |-> FALSE, value |-> Trim(textContent(h1Element[1]))]
        ELSE IF metaTitle # <<>> /\ getAttribute(metaTitle[1], "content") # <<>>
        THEN [isNull |-> FALSE, value |-> Trim(getAttribute(metaTitle[1], "content"))]
        ELSE [isNull |-> TRUE, value |-> <<>>]

\* The markup given to HtmlProcessor: fragments and whole documents with
\* nested containers, attributes of both kinds, and every shape of title.
Fragment ==
    <<Open("div", <<Attr("class", <<"w", "r", "a", "p", "p", "e", "r">>)>>),
        Open("p", <<Attr("id", <<"x">>), Attr("style", <<"s">>), Attr("title", <<"t">>)>>),
          Text(<<"H", "e", "l", "l", "o", " ">>), Open("b", <<>>), Text(<<"b", "o", "l", "d">>), Close("b"),
        Close("p"),
        Open("div", <<Attr("class", <<"w", "r", "a", "p", "p", "e", "r">>)>>), Text(<<"i", "n", "n", "e", "r">>), Close("div"),
        Text(<<" ", "t", "a", "i", "l">>),
      Close("div"),
      Open("footer", <<>>), Text(<<"f", "o", "o", "t">>), Close("footer")>>
WholeDocument ==
    <<Doctype,
      Open("html", <<Attr("lang", <<"e", "n">>)>>),
        Open("head", <<>>),
          Open("title", <<>>), Text(<<" ", "M", "y", " ", "T", "i", "t", "l", "e", " ">>), Close("title"),
          Open("meta", <<Attr("name", <<"t", "i", "t", "l", "e">>), Attr("content", <<"M", "e", "t", "a">>)>>),
        Close("head"),
        Open("body", <<>>),
          Open("h1", <<>>), Text(<<"H", "e", "a", "d", "i", "n", "g">>), Close("h1"),
          Open("div", <<Attr("class", <<"c", "o", "n", "t", "a", "i", "n", "e", "r">>)>>),
            Open("a", <<Attr("href", <<"/", "d", "o", "c", "s">>), Attr("class", <<"w", "r", "a", "p", "p", "e", "r">>)>>),
              Text(<<"l", "i", "n", "k">>),
            Close("a"),
            Open("img", <<Attr("src", <<"/", "i", ".", "p", "n", "g">>), Attr("alt", <<"p", "i", "c">>),
                          Attr("width", <<"1">>)>>),
          Close("div"),
        Close("body"),
      Close("html")>>
Sections ==
    <<Open("section", <<>>),
        Text(<<"a">>),
        Open("div", <<>>),
          Open("div", <<Attr("id", <<"x">>)>>), Text(<<"b">>), Close("div"),
          Text(<<"c">>),
        Close("div"),
        Text(<<"d">>),
      Close("section")>>
BlankTitle ==
    <<Open("title", <<>>), Text(<<" ">>), Close("title"),
      Open("h1", <<>>), Text(<<"H", "e", "a", "d", "i", "n", "g">>), Close("h1")>>
EmptyTitle ==
    <<Open("title", <<>>), Close("title"),
      Open("h1", <<>>), Text(<<" ", "H", "e", "a", "d">>), Open("b", <<>>), Text(<<"i", "n", "g", " ">>), Close("b"),
      Close("h1")>>
BlankHeading ==
    <<Open("h1", <<>>), Text(<<" ">>), Close("h1"),
      Open("meta", <<Attr("name", <<"t", "i", "t", "l", "e">>), Attr("content", <<" ", "M", "e", "t", "a", " ">>)>>)>>
MetaOnly ==
    <<Open("meta", <<Attr("name", <<"d", "e", "s", "c", "r", "i", "p", "t", "i", "o", "n">>), Attr("content", <<"n", "o">>)>>),
      Open("meta", <<Attr("name", <<"t", "i", "t", "l", "e">>), Attr("content", <<" ", "M", "e", "t", "a", " ">>)>>),
      Open("p", <<>>), Text(<<"t", "e", "x", "t">>), Close("p")>>
Untitled == <<Open("p", <<Attr("class", <<"w", "r", "a", "p", "p", "e", "r">>)>>), Text(<<"t", "e", "x", "t">>), Close("p")>>
Markups ==
    {Fragment, WholeDocument, Sections, BlankTitle, EmptyTitle, BlankHeading,
     MetaOnly, Untitled, <<>>}

\* The selector lists of config.selectors.
ExcludeLists ==
    {<<>>,
     <<TagSelector("footer")>>,
     <<TagSelector("footer"), InvalidSelector>>,
     <<ClassSelector(<<"w", "r", "a", "p", "p", "e", "r">>), IdSelector(<<"x">>)>>,
     <<TagSelector("html")>>}
UnwrapLists ==
    {<<>>,
     <<ClassSelector(<<"c", "o", "n", "t", "a", "i", "n", "e", "r">>), ClassSelector(<<"w", "r", "a", "p", "p", "e", "r">>)>>,
     <<InvalidSelector, ClassSelector(<<"w", "r", "a", "p", "p", "e", "r">>)>>,
     <<ChildSelector("section", "div")>>,
     <<TagSelector("html"), ClassSelector(<<"w", "r", "a", "p", "p", "e", "r">>)>>,
     <<TagSelector("div")>>}
PageUrls == {[isNull |-> TRUE, value |-> <<>>], [isNull |-> FALSE, value |-> <<"h", "t", "t", "p", "s", ":", "/", "/", "e", "x", "a", "m", "p", "l", "e", ".", "c", "o", "m", "/", "d", "o", "c", "s", "/", "p", "a", "g", "e">>]}

\* convertHtmlToMarkdown and convertHtmlWithContent call
\* HtmlProcessor.process on the fetched markup.
Process ==
    /\ rewritten = <<>>
    /\ rewritten' = <<process(htmlContent, pageUrl)>>
    /\ UNCHANGED <<pipeVars, sitemapVars, pathVars, fsVars, htmlContent, selectors, pageUrl, title>>

\* HtmlProcessor.process on markup it returned before.
ProcessAgain ==
    /\ Len(rewritten) = 1
    /\ rewritten' = Append(rewritten, process(rewritten[1].returned, pageUrl))
    /\ UNCHANGED <<pipeVars, sitemapVars, pathVars, fsVars, htmlContent, selectors, pageUrl, title>>

\* processUrl calls HtmlProcessor.extractPageTitle on the fetched markup.
ExtractPageTitle ==
    /\ title = <<>>
    /\ title' = <<extractPageTitle(htmlContent)>>
    /\ UNCHANGED <<pipeVars, sitemapVars, pathVars, fsVars, htmlContent, selectors, pageUrl, rewritten>>

DomNext ==
    \/ Process
    \/ ProcessAgain
    \/ ExtractPageTitle

\* HtmlProcessor under every rule set of the model, for every markup.
DomInit ==
    /\ MAX_CONCURRENT = 1
    /\ RETRY_ATTEMPTS = 0
    /\ usePageTitlesForFilenames = FALSE
    /\ total = 0
    /\ trace = FALSE
    /\ PipeIdle
    /\ SitemapIdle
    /\ PathIdle
    /\ FsIdle
    /\ htmlContent \in Markups
    /\ selectors \in [exclude : ExcludeLists, unwrap : UnwrapLists, removeAttributes : BOOLEAN]
    /\ pageUrl \in PageUrls
    /\ rewritten = <<>>
    /\ title = <<>>

DomSpec == DomInit /\ [][DomNext]_vars

(* ---------------------------------------------------------------------- *)
(* HTML rewriter and title extractor: properties                           *)
(* ---------------------------------------------------------------------- *)

Rewrites == {rewritten[k] : k \in 1..Len(rewritten)}
HasInvalid(list) == \E k \in 1..Len(list) : list[k].kind = "invalid"

\* C17, as claimed: whenever a selector query of process fails (an invalid
\* selector in the exclude or the unwrap list), the value returned is the
\* markup that was given.
C17_FailureReturnsInput ==
    \A r \in Rewrites :
        (HasInvalid(selectors.exclude) \/ HasInvalid(selectors.unwrap))
        => r.returned = r.html

\* The nodes of a document in document order, and each node without its
\* children.
RECURSIVE DocumentOrder(_)
DocumentOrder(nodes) ==
    IF nodes = <<>> THEN <<>>
    ELSE <<Head(nodes)>> \o DocumentOrder(Head(nodes).children) \o DocumentOrder(Tail(nodes))
Shallow(node) == [id |-> node.id, name |-> node.name, attrs |-> node.attrs, data |-> node.data]
NodeList(document) ==
    LET flat == DocumentOrder(document) IN [k \in 1..Len(flat) |-> Shallow(flat[k])]

\* The text nodes of a document, in document order.
TextNodes(document) ==
    LET texts == SelectSeq(DocumentOrder(document), LAMBDA n : ~IsElement(n))
    IN  [k \in 1..Len(texts) |-> texts[k].data]

\* The id of the parent of a node (0: the document itself, -1: no such node).
RECURSIVE ParentIn(_, _, _)
ParentIn(nodes, id, parent) ==
    IF nodes = <<>> THEN -1
    ELSE IF Head(nodes).id = id THEN parent
    ELSE LET below == ParentIn(Head(nodes).children, id, Head(nodes).id) IN
         IF below # -1 THEN below ELSE ParentIn(Tail(nodes), id, parent)
parentNode(document, id) == ParentIn(document, id, 0)

\* The nearest ancestor of a node that is not one of the matched elements.
RECURSIVE KeptAncestor(_, _, _)
KeptAncestor(document, id, matched) ==
    LET p == parentNode(document, id) IN
    IF p \in matched THEN KeptAncestor(document, p, matched) ELSE p

\* The unwrap stage took the elements of matched out of the document before
\* and put their children in their place: the other nodes are the same, in
\* the same order, each below its nearest ancestor that was kept.
Spliced(before, after, matched) ==
    /\ NodeList(after) = SelectSeq(NodeList(before), LAMBDA n : n.id \notin matched)
    /\ \A k \in 1..Len(NodeList(after)) :
           parentNode(after, NodeList(after)[k].id)
               = KeptAncestor(before, NodeList(after)[k].id, matched)
    /\ TextNodes(after) = TextNodes(before)

\* The elements that match the unwrap selectors when the stage starts.
UnwrapMatches(r) ==
    LET found == querySelectorAll(r.excluded, selectors.unwrap).elements
    IN  {found[k] : k \in 1..Len(found)}
RootMatches(r) == r.excluded # <<>> /\ r.excluded[1].id \in UnwrapMatches(r)

KeptOf(attrs) == SelectSeq(attrs, LAMBDA a : a.name \in {"href", "src", "alt", "title"})
Bare(node) == [Shallow(node) EXCEPT !.attrs = <<>>]

\* C19: after removeAttributes every element carries only attributes named
\* href, src, alt or title, these are the ones it had, with the values they
\* had, and nothing else of the document changes; removeAttributes applied to
\* a stripped document changes nothing, and process with attribute stripping
\* as its only rule returns markup it returned before as it is.
C19_StripKeepsAllowList ==
    /\ \A r \in Rewrites :
           selectors.removeAttributes =>
               LET before == NodeList(r.unwrapped)
                   after == NodeList(r.stripped)
               IN  /\ Len(after) = Len(before)
                   /\ \A k \in 1..Len(after) :
                          /\ Bare(after[k]) = Bare(before[k])
                          /\ after[k].attrs = KeptOf(before[k].attrs)
                          /\ \A j \in 1..Len(after[k].attrs) :
                                 after[k].attrs[j].name \in {"href", "src", "alt", "title"}
                   /\ removeAttributes(r.stripped) = r.stripped
    /\ (Len(rewritten) = 2 /\ selectors.removeAttributes
            /\ selectors.exclude = <<>> /\ selectors.unwrap = <<>>)
       => /\ rewritten[2].stripped = rewritten[2].document
          /\ rewritten[2].returned = rewritten[1].returned

\* Markup with id, style and title on one element went through process
\* twice with attribute stripping as the only rule: only title is left.
C19_Witness ==
    /\ Len(rewritten) = 2
    /\ htmlContent = Fragment
    /\ selectors = [exclude |-> <<>>, unwrap |-> <<>>, removeAttributes |-> TRUE]
    /\ \E k \in 1..Len(NodeList(rewritten[1].unwrapped)) :
           /\ Len(NodeList(rewritten[1].unwrapped)[k].attrs) = 3
           /\ NodeList(rewritten[1].stripped)[k].attrs = <<Attr("title", <<"t">>)>>
    /\ rewritten[1].returned # rewritten[1].html

\* The ids of the nodes of a document, and the elements of the parsed
\* document that match an exclude selector.
Ids(document) == {NodeList(document)[k].id : k \in 1..Len(NodeList(document))}
ExcludeMatches(r) ==
    LET found == querySelectorAll(r.document, selectors.exclude).elements
    IN  {found[k] : k \in 1..Len(found)}

\* The value absolutizeMediaUrls leaves in attribute name of an element that
\* had the given value, for the page URL of the call.
Rewritten(node, name, value) ==
    IF /\ ~pageUrl.isNull
       /\ node.name \in (IF name = "src" THEN {"img", "audio", "video", "source", "picture"}
                         ELSE {"a"})
       /\ startsWith(value, <<"/">>) /\ ~startsWith(value, <<"/", "/">>)
    THEN origin(pageUrl.value) \o value
    ELSE value

\* C26: the stages of process run in the order exclusion, unwrapping,
\* attribute stripping, absolutization, each on the document the one before
\* left.  With or without stripping, no element that matched an exclude
\* selector in the parsed document (by tag, class or id) is in the final
\* document, and unless the root matches none that matched an unwrap selector
\* after the exclusion; no node that the exclusion removed is in the final
\* document, whose text nodes are those left by the exclusion; and every
\* element of the final document has in href and src the value it was parsed
\* with, rewritten against the page URL where absolutization applies.
C26_StagesInOrder ==
    \A r \in Rewrites :
        /\ ~HasInvalid(selectors.exclude) => ExcludeMatches(r) \cap Ids(r.absolutized) = {}
        /\ (~HasInvalid(selectors.unwrap) /\ ~RootMatches(r))
               => UnwrapMatches(r) \cap Ids(r.absolutized) = {}
        /\ UnwrapMatches(r) \subseteq Ids(r.excluded)
        /\ Ids(r.absolutized) \subseteq Ids(r.excluded)
        /\ TextNodes(r.absolutized) = TextNodes(r.excluded)
        /\ \A k \in 1..Len(NodeList(r.absolutized)) :
               LET n == NodeList(r.absolutized)[k]
                   parsed == NodeWithId(r.document, n.id)[1]
               IN  \A name \in {"href", "src"} :
                       getAttribute(n, name)
                           = Rewritten(parsed, name, getAttribute(parsed, name))
        /\ ~r.caught => r.returned = outerHTML(r.absolutized[1])

\* A whole document went through all four stages: the link of class wrapper
\* was excluded and its text is gone, the container was unwrapped, and the
\* image under it has lost its width and has its src on the page's origin.
C26_Witness ==
    \E r \in Rewrites :
        /\ r.html = WholeDocument
        /\ selectors.removeAttributes
        /\ ~pageUrl.isNull
        /\ Cardinality(ExcludeMatches(r)) = 1
        /\ Cardinality(UnwrapMatches(r)) = 1
        /\ TextNodes(r.absolutized)
               = << <<" ", "M", "y", " ", "T", "i", "t", "l", "e", " ">>,
                    <<"H", "e", "a", "d", "i", "n", "g">> >>
        /\ \E k \in 1..Len(NodeList(r.absolutized)) :
               LET n == NodeList(r.absolutized)[k]
               IN  /\ n.name = "img"
                   /\ parentNode(r.absolutized, n.id) # parentNode(r.document, n.id)
                   /\ n.attrs = <<Attr("src", <<"h", "t", "t", "p", "s", ":", "/", "/", "e", "x", "a", "m", "p", "l", "e", ".", "c", "o", "m", "/", "i", ".", "p", "n", "g">>),
                                  Attr("alt", <<"p", "i", "c">>)>>

\* C20, as claimed: extractPageTitle returns the first of the three candidates
\* (first title element, first h1 element, content of meta[name=title]) that
\* is non-empty after trimming, trimmed; a candidate that is empty or only
\* whitespace is passed over, and the result is null or a non-empty string.
C20_FirstNonEmptyTrimmed ==
    \A k \in 1..Len(title) :
        /\ title[k] = extractPageTitleTrimFirst(htmlContent)
        /\ ~title[k].isNull => title[k].value # <<>>
        /\ htmlContent = BlankTitle => title[k].value = <<"H", "e", "a", "d", "i", "n", "g">>

(* ---------------------------------------------------------------------- *)
(* Output files: the writeFile calls of processUrl, call by call           *)
(* fs.promises.writeFile opens the path with flag 'w' (the file is created *)
(* or truncated), writes the data from the start of the descriptor and     *)
(* closes it; the markdown of the model is short enough for one write.     *)
(* ---------------------------------------------------------------------- *)

\* The longest markdown of the model, in characters.
MaxChunk == 2

\* The markdown of job n: text of its own, of the given length.
Markdown(n, len) == [k \in 1..len |-> n]

\* open(path, 'w')
Truncate(fs, path) ==
    [q \in DOMAIN fs \cup {path} |-> IF q = path THEN <<>> ELSE fs[q]]

\* A variant of the write that appends to the file.
WriteAppending(fs, path, data) == [fs EXCEPT ![path] = @ \o data]

\* write(fd, data) on a descriptor at position 0: the data replaces the
\* start of the file, what the file holds beyond it stays.
WriteAtStart(fs, path, data) ==
    [fs EXCEPT ![path] = data \o SubSeq(@, Len(data) + 1, Len(@))]

FsEvent(op, n, data) == [op |-> op, job |-> n, path |-> filePath[n], data |-> data]

\* writeFile of job n opens its file, or fails to (the call rejects).
WriteFileOpen(n) ==
    /\ job[n].pc = "writeFile"
    /\ fd[n] = "none"
    /\ \E ok \in BOOLEAN :
         IF ok
         THEN /\ files' = Truncate(files, filePath[n])
              /\ fd' = [fd EXCEPT ![n] = "open"]
              /\ fsLog' = Append(fsLog, FsEvent("open", n, <<>>))
              /\ UNCHANGED <<pipeVars, urlList, filePath>>
         ELSE /\ Settle(n, AfterWriteFile(job[n], FALSE))
              /\ UNCHANGED <<PipeConfig, fsVars>>
    /\ UNCHANGED <<sitemapVars, pathVars, domVars>>

\* writeFile of job n writes its markdown.
WriteFileWrite(n) ==
    /\ job[n].pc = "writeFile"
    /\ fd[n] = "open"
    /\ \E len \in 1..MaxChunk :
         /\ files' = WriteAtStart(files, filePath[n], Markdown(n, len))
         /\ fsLog' = Append(fsLog, FsEvent("write", n, Markdown(n, len)))
    /\ fd' = [fd EXCEPT ![n] = "written"]
    /\ UNCHANGED <<pipeVars, sitemapVars, pathVars, domVars, urlList, filePath>>

\* writeFile of job n closes the file and resolves: processUrl returns.
WriteFileClose(n) ==
    /\ job[n].pc = "writeFile"
    /\ fd[n] = "written"
    /\ fd' = [fd EXCEPT ![n] = "closed"]
    /\ fsLog' = Append(fsLog, FsEvent("close", n, <<>>))
    /\ Settle(n, AfterWriteFile(job[n], TRUE))
    /\ UNCHANGED <<PipeConfig, sitemapVars, pathVars, domVars, urlList, filePath, files>>

\* URLs of the list: two that differ and map to one path, and a third.
WriteUrls ==
    {<<"h", "t", "t", "p", "s", ":", "/", "/", "e", "x", "a", "m", "p", "l", "e", ".", "c", "o", "m", "/", "p", "r", "o", "d", "u", "c", "t", "s", "?", "A", "a">>,
     <<"h", "t", "t", "p", "s", ":", "/", "/", "e", "x", "a", "m", "p", "l", "e", ".", "c", "o", "m", "/", "p", "r", "o", "d", "u", "c", "t", "s", "?", "B", "B">>,
     <<"h", "t", "t", "p", "s", ":", "/", "/", "e", "x", "a", "m", "p", "l", "e", ".", "c", "o", "m", "/", "a", "b", "o", "u", "t">>}

\* A run over a list of two URLs, with the files.
WriteInit ==
    /\ MAX_CONCURRENT \in 1..MaxConcurrent
    /\ RETRY_ATTEMPTS = 0
    /\ usePageTitlesForFilenames = FALSE
    /\ total = 2
    /\ trace = FALSE
    /\ PipeIdle
    /\ SitemapIdle
    /\ PathIdle
    /\ DomIdle
    /\ urlList \in [1..2 -> WriteUrls]
    /\ filePath = [n \in 1..2 |-> getOutputPaths(urlList[n], Null).filePath]
    /\ files = [p \in {} |-> <<>>]
    /\ fd = [n \in 1..2 |-> "none"]
    /\ fsLog = <<>>

WriteNext ==
    \/ processUrlsInBatches
    \/ \E n \in 1..total : AxiosResolve(n)
    \/ \E n \in 1..total : AxiosReject(n)
    \/ \E n \in 1..total : EnsureDir(n)
    \/ \E n \in 1..total : WriteFileOpen(n)
    \/ \E n \in 1..total : WriteFileWrite(n)
    \/ \E n \in 1..total : WriteFileClose(n)

WriteSpec == WriteInit /\ [][WriteNext]_vars

(* ---------------------------------------------------------------------- *)
(* Output files: properties                                                *)
(* ---------------------------------------------------------------------- *)

\* The position of the last call of the given kind on a path (0: none), the
\* jobs that map to a path, and what a job wrote.
RECURSIVE LastEvent(_, _, _)
LastEvent(op, path, k) ==
    IF k = 0 \/ (fsLog[k].op = op /\ fsLog[k].path = path) THEN k
    ELSE LastEvent(op, path, k - 1)
JobsOn(path) == {n \in Jobs : filePath[n] = path}
EventOf(op, n) == CHOOSE k \in 1..Len(fsLog) : fsLog[k].op = op /\ fsLog[k].job = n
Wrote(n) == \E k \in 1..Len(fsLog) : fsLog[k].op = "write" /\ fsLog[k].job = n

\* No other job wrote to the path of job n between n's open and n's write.
Undisturbed(n) ==
    \A k \in (EventOf("open", n) + 1)..(EventOf("write", n) - 1) :
        ~(fsLog[k].op = "write" /\ fsLog[k].path = filePath[n])

\* The run has returned: every job whose conversion and ensureDir succeeded
\* and whose file could be opened has written and is done, nothing is logged
\* for it, also when another job has the same path.
BothWritesPerformed ==
    \A n \in Jobs :
        (\E k \in 1..Len(fsLog) : fsLog[k].job = n)
        => /\ Wrote(n)
           /\ job[n].pc = "done"
           /\ job[n].writes = 1
           /\ job[n].errorLog = <<>>

====
